---- MODULE Spec2Model ----
(***************************************************************************)
(* Rustorch: dense numeric arrays with interchangeable execution           *)
(* strategies.  The module models                                          *)
(*   - crates/tensor   : Tensor, Tensor::multiply in its four              *)
(*                       ExecutionModes, the SIMDOps kernels and the       *)
(*                       threads that write the shared result buffer       *)
(*                       through RawPointerWrapper;                        *)
(*   - crates/tensor   : the ComputeMode elementwise engine (tns.rs);      *)
(*   - crates/Matrix   : Matrix<T> arithmetic, determinant, cofactors.     *)
(* f32 / generic T values are modelled by integers: every property below   *)
(* is about integer-valued inputs, where no rounding takes place.          *)
(* Rust's 0-based buffers are 1-based sequences here: At(buf, i) reads     *)
(* buf[i].                                                                 *)
(***************************************************************************)
EXTENDS Integers, Sequences, FiniteSets, TLC

VARIABLES
    op,         \* the public operation that was called
    mode,       \* its ExecutionMode / ComputeMode ("" when it has none)
    nb_threads, \* the nb_threads argument of a parallel multiply
    a,          \* first operand  (self)
    b,          \* second operand (other / rhs)
    pc,         \* where the calling thread is: call, spawn, join, loop, done
    outcome,    \* "none" while running, then "Ok", an error kind, or "panic"
    ret,        \* the value handed to the caller with Ok
    allocated,  \* a result buffer has been allocated by this call
    res,        \* the result buffer (<<>> while not allocated)
    wlog,       \* per result index: the writers so far, in order
    oob,        \* a write through modify_at went outside the buffer
    uaf,        \* a thread wrote after the buffer had been dropped
    th,         \* per spawned thread: state, row range, cells done
    spawned,    \* number of threads spawned so far
    joined,     \* number of handles joined so far
    idx,        \* loop index of a sequential element loop
    written,    \* result elements stored so far by the calling thread
    lu,         \* working state of determinant_lu
    supports_avx2, \* the CPU has the AVX2 vector instructions
    supports_avx512, \* the CPU has the AVX-512F vector instructions
    simd_width, \* the lane width SimdProcessor::new stored
    simd_used,  \* a vector instruction has been executed by this call
    config,     \* the TrainingConfig handed to SGD::train
    history,    \* the TrainingHistory SGD::train builds
    patience_counter, \* the local counter of SGD::train
    epoch       \* the loop variable of SGD::train

\* The locals of SGD::train
training == <<config, history, patience_counter, epoch>>

\* What no step of a Tensor, Matrix or slice operation assigns
inputs ==
    <<op, mode, nb_threads, a, b, supports_avx2, supports_avx512, simd_width,
      training>>

vars == <<op, mode, nb_threads, a, b, pc, outcome, ret, allocated, res, wlog,
          oob, uaf, th, spawned, joined, idx, written, lu, supports_avx2,
          supports_avx512, simd_width, simd_used, config, history,
          patience_counter, epoch>>

\* Option<T>
None == <<>>
Some(x) == <<x>>

\* TrainingConfig::default(); validation_split in percent, min_improvement
\* in units of 1e-6
TrainingConfigDefault ==
    [epochs |-> 1000, validation_split |-> 20,
     early_stopping_patience |-> Some(10), min_improvement |-> 1]

\* TrainingHistory::new
TrainingHistoryNew ==
    [metrics |-> <<>>, best_validation_loss |-> None, best_epoch |-> 0,
     stopped_early |-> FALSE]

\* SimdProcessor::new: the two probes and the lane width it derives
SimdProcessorNew(avx2, avx512) ==
    /\ supports_avx2 = avx2
    /\ supports_avx512 = avx512
    /\ simd_width = IF avx512 THEN 16 ELSE IF avx2 THEN 8 ELSE 4

\* ------------------------------------------------------------------ bounds

MaxRows == 3
MaxBCols == 2
MaxThreads == 2
MaxSeed == 1
MaxVal == 1
MaxDim == 2
MaxLen == 4
MaxOps == 2

\* Inner dimensions (a.cols, b.rows): empty, below the lane width, exactly
\* one vector, one vector plus a remainder.
InnerDims == {0, 1, 8, 9}

\* nb_threads handed to multiply_parallel / multiply_simd_parallel
NB_THREADS == 6

\* f32 lanes of one _mm256 vector
LANES == 8

\* tns.rs: the smallest chunk_size
MIN_CHUNK == 1000

\* ------------------------------------------------------------- arithmetic

At(buf, i) == buf[i + 1]

RECURSIVE SumTo(_, _)
\* f(0) + f(1) + ... + f(n-1), added in index order
SumTo(f, n) == IF n = 0 THEN 0 ELSE SumTo(f, n - 1) + f[n - 1]

RECURSIVE Product(_)
Product(shape) ==
    IF shape = <<>> THEN 1 ELSE Head(shape) * Product(Tail(shape))

Zeros(n) == [i \in 1..n |-> 0]

\* Integer-valued test data in -2..2
GenData(n, seed, salt) == [i \in 1..n |-> ((i * (seed + 2) + salt) % 5) - 2]

\* ------------------------------------------------------------------ Tensor

Tensor(data, shape) == [data |-> data, rank |-> Len(shape), shape |-> shape]

NoRet == [data |-> <<>>, rank |-> 0, shape |-> <<>>]

\* What a call hands back: its kind (Ok or the error), the value, and
\* whether a result buffer had been allocated when the outcome was decided.
\* buf is the result buffer at that moment and written the number of its
\* elements that had been stored.
Ok(t) ==
    [kind |-> "Ok", val |-> t, alloc |-> TRUE, buf |-> t.data,
     written |-> Len(t.data)]
Err(kind) ==
    [kind |-> kind, val |-> NoRet, alloc |-> FALSE, buf |-> <<>>, written |-> 0]
ErrAlloc(kind) ==
    [kind |-> kind, val |-> NoRet, alloc |-> TRUE, buf |-> <<>>, written |-> 0]

\* Tensor::new takes an existing buffer
TensorNew(data, shape) ==
    IF Len(data) # Product(shape)
    THEN ErrAlloc("ShapeMismatch")
    ELSE Ok(Tensor(data, shape))

rows(t) == IF t.rank >= 1 THEN t.shape[1] ELSE 1
cols(t) == IF t.rank >= 2 THEN t.shape[2] ELSE 1

is_matrix(t) == t.rank = 2
is_column_vector(t) == t.rank = 2 /\ t.shape[2] = 1

transpose_data(t) ==
    LET r == t.shape[1]
        c == t.shape[2]
    IN  [p \in 1..(r * c) |->
            \* data[j * rows + i] = self.data[i * cols + j]
            LET j == (p - 1) \div r
                i == (p - 1) % r
            IN  At(t.data, i * c + j)]

transpose(t) ==
    IF t.rank # 2
    THEN Err("DimensionError")
    ELSE TensorNew(transpose_data(t), <<t.shape[2], t.shape[1]>>)

\* ------------------------------------------------- multiply: the kernels

\* sum += a[i * a_cols + k] * b[k * b_cols + j], k = 0 .. a_cols-1
naive_dot(ad, bd, i, j, a_cols, b_cols) ==
    SumTo([k \in 0..(a_cols - 1) |->
              At(ad, i * a_cols + k) * At(bd, k * b_cols + j)], a_cols)

\* One lane of the vector accumulator after the complete chunks
simd_lane(x, xoff, y, yoff, n, l) ==
    LET complete_chunks == n \div LANES
    IN  SumTo([j \in 0..(complete_chunks - 1) |->
                  At(x, xoff + j * LANES + l) * At(y, yoff + j * LANES + l)],
              complete_chunks)

\* Mutant: the remainder loop stops one element early
simd_tail_short(x, xoff, y, yoff, n) ==
    LET complete_chunks == n \div LANES
        remaining == n % LANES
        offset == complete_chunks * LANES
    IN  IF remaining > 1
        THEN SumTo([j \in 0..(remaining - 2) |->
                       At(x, xoff + offset + j) * At(y, yoff + offset + j)],
                   remaining - 1)
        ELSE 0

\* The scalar remainder loop
simd_tail(x, xoff, y, yoff, n) ==
    LET complete_chunks == n \div LANES
        remaining == n % LANES
        offset == complete_chunks * LANES
    IN  IF remaining > 0
        THEN SumTo([j \in 0..(remaining - 1) |->
                       At(x, xoff + offset + j) * At(y, yoff + offset + j)],
                   remaining)
        ELSE 0

\* total = remainder, then += values[0] + ... + values[7]
simd_dot(x, xoff, y, yoff, n) ==
    simd_tail(x, xoff, y, yoff, n)
      + SumTo([l \in 0..(LANES - 1) |-> simd_lane(x, xoff, y, yoff, n, l)],
              LANES)

multiply_sequential(x, y) ==
    IF ~is_matrix(x) \/ ~is_matrix(y) THEN Err("DimensionError")
    ELSE IF x.shape[2] # y.shape[1] THEN Err("ShapeMismatch")
    ELSE LET n == cols(y)
         IN  TensorNew([p \in 1..(rows(x) * n) |->
                           naive_dot(x.data, y.data, (p - 1) \div n,
                                     (p - 1) % n, cols(x), n)],
                       <<rows(x), n>>)

matrix_vector_multiply(matrix, vector) ==
    IF ~is_matrix(matrix) \/ ~is_column_vector(vector)
    THEN Err("DimensionError")
    ELSE IF matrix.shape[2] # vector.shape[1] THEN Err("ShapeMismatch")
    ELSE LET c == cols(matrix)
         IN  TensorNew([p \in 1..rows(matrix) |->
                           simd_dot(matrix.data, (p - 1) * c, vector.data, 0, c)],
                       <<rows(matrix), 1>>)

matrix_multiply(x, y) ==
    IF ~is_matrix(x) \/ ~is_matrix(y) THEN Err("DimensionError")
    ELSE IF x.shape[2] # y.shape[1] THEN Err("ShapeMismatch")
    ELSE LET tr == transpose(y)      \* after res has been allocated
             n == cols(y)
         IN  IF tr.kind # "Ok" THEN ErrAlloc(tr.kind)
             ELSE TensorNew(
                    [p \in 1..(rows(x) * n) |->
                        simd_dot(x.data, ((p - 1) \div n) * cols(x),
                                 tr.val.data, ((p - 1) % n) * cols(tr.val),
                                 cols(x))],
                    <<rows(x), n>>)

multiply_simd(x, y) ==
    IF is_column_vector(y) /\ is_matrix(x) THEN matrix_vector_multiply(x, y)
    ELSE IF is_matrix(x) /\ is_matrix(y) THEN matrix_multiply(x, y)
    ELSE Err("DimensionError")

\* ------------------------------------- multiply: the thread partitioning

\* Mutant: the last task does not absorb the remainder
multiply_parallel_range_no_rest(t, nb, nrows) ==
    LET chunk_size == nrows \div nb
        start == t * chunk_size
    IN  <<start, start + chunk_size>>

\* Row range [start, end) of task t: ops.rs multiply_parallel
multiply_parallel_range(t, nb, nrows) ==
    LET chunk_size == nrows \div nb
        start == t * chunk_size
    IN  <<start, IF t = nb - 1 THEN nrows ELSE start + chunk_size>>

\* simd.rs matrix_multiply_parallel
matrix_multiply_parallel_range(i, nb, nrows) ==
    LET rows_per_thread == nrows \div nb
        start == i * rows_per_thread
    IN  <<start, IF i = nb - 1 THEN nrows ELSE start + rows_per_thread>>

\* Mutant: every task runs to the last row
matrix_vector_multiply_parallel_range_to_end(i, nb, nrows) ==
    LET rows_per_thread == nrows \div nb
        start == i * rows_per_thread
    IN  <<start, nrows>>

\* simd.rs matrix_vector_multiply_parallel
matrix_vector_multiply_parallel_range(i, nb, nrows) ==
    LET rows_per_thread == nrows \div nb
        start == i * rows_per_thread
    IN  <<start, IF i = nb - 1 THEN nrows ELSE start + rows_per_thread>>

\* The c-th cell a task starting at row `start` computes: the index it
\* hands to modify_at and the value.
multiply_parallel_cell(x, y, start, c) ==
    LET a_cols == cols(x)
        b_cols == cols(y)
        i == start + (c \div b_cols)
        j == c % b_cols
    IN  [index |-> i * b_cols + j,
         value |-> naive_dot(x.data, y.data, i, j, a_cols, b_cols)]

matrix_multiply_parallel_cell(x, y, start, c) ==
    LET transposed == transpose(y).val
        a_cols == cols(x)
        b_cols == cols(y)
        b_rows == cols(transposed)
        i == start + (c \div b_cols)
        k == c % b_cols
    IN  [index |-> i * b_cols + k,
         value |-> simd_dot(x.data, i * a_cols, transposed.data, k * b_rows,
                            a_cols)]

matrix_vector_multiply_parallel_cell(x, y, start, c) ==
    LET k == start + c
        n == cols(x)
    IN  [index |-> k,
         value |-> simd_dot(x.data, k * n, y.data, 0, n)]

\* Precondition checks of the three parallel functions
multiply_parallel_check(x, y) ==
    IF ~is_matrix(x) \/ ~is_matrix(y) THEN "DimensionError"
    ELSE IF x.shape[2] # y.shape[1] THEN "ShapeMismatch"
    ELSE "Ok"

matrix_multiply_parallel_check(x, y) ==
    IF ~is_matrix(x) \/ ~is_matrix(y) THEN "DimensionError"
    ELSE IF x.shape[2] # y.shape[1] THEN "ShapeMismatch"
    ELSE "Ok"

matrix_vector_multiply_parallel_check(matrix, vector) ==
    IF ~is_matrix(matrix) \/ ~is_column_vector(vector) THEN "DimensionError"
    ELSE IF matrix.shape[2] # vector.shape[1] THEN "ShapeMismatch"
    ELSE "Ok"

\* Which parallel function a call runs: Tensor::multiply dispatches on the
\* mode, multiply_simd_parallel on the operands' shapes.
ParKernel ==
    IF op = "multiply" /\ mode = "Parallel" THEN "multiply_parallel"
    ELSE IF op = "multiply" /\ mode = "ParallelSIMD" THEN
        IF is_column_vector(b) /\ is_matrix(a)
        THEN "matrix_vector_multiply_parallel"
        ELSE IF is_matrix(a) /\ is_matrix(b) THEN "matrix_multiply_parallel"
        ELSE "none"
    ELSE op

IsParallelCall ==
    \/ op = "multiply" /\ mode \in {"Parallel", "ParallelSIMD"}
    \/ op \in {"matrix_multiply_parallel", "matrix_vector_multiply_parallel"}

ParCheck ==
    CASE ParKernel = "multiply_parallel" -> multiply_parallel_check(a, b)
      [] ParKernel = "matrix_multiply_parallel" ->
            matrix_multiply_parallel_check(a, b)
      [] ParKernel = "matrix_vector_multiply_parallel" ->
            matrix_vector_multiply_parallel_check(a, b)
      [] OTHER -> "DimensionError"

ParRange(t) ==
    CASE ParKernel = "multiply_parallel" ->
            multiply_parallel_range(t, nb_threads, rows(a))
      [] ParKernel = "matrix_multiply_parallel" ->
            matrix_multiply_parallel_range(t, nb_threads, rows(a))
      [] OTHER -> matrix_vector_multiply_parallel_range(t, nb_threads, rows(a))

ParCell(start, c) ==
    CASE ParKernel = "multiply_parallel" -> multiply_parallel_cell(a, b, start, c)
      [] ParKernel = "matrix_multiply_parallel" ->
            matrix_multiply_parallel_cell(a, b, start, c)
      [] OTHER -> matrix_vector_multiply_parallel_cell(a, b, start, c)

\* Length of the result buffer and shape of the returned tensor
ParLen ==
    IF ParKernel = "matrix_vector_multiply_parallel"
    THEN rows(a) ELSE rows(a) * cols(b)

ParShape ==
    IF ParKernel = "matrix_vector_multiply_parallel"
    THEN <<rows(a), 1>> ELSE <<rows(a), cols(b)>>

\* Cells in the loop nest of task t
Work(t) ==
    LET n == th[t].end - th[t].start
        m == IF n < 0 THEN 0 ELSE n
    IN  IF ParKernel = "matrix_vector_multiply_parallel"
        THEN m ELSE m * cols(b)

Idle == [st |-> "none", start |-> 0, end |-> 0, cell |-> 0]

\* ------------------------------------------------------- multiply: actions

Finish(r) ==
    /\ outcome' = r.kind
    /\ ret' = r.val
    /\ allocated' = r.alloc
    /\ res' = r.buf
    /\ written' = r.written
    /\ pc' = "done"

\* The process has not been killed by an illegal instruction
ProcessAlive == outcome # "illegal_instruction"

\* The kernels of SIMDOps run _mm256 intrinsics for every cell, whatever
\* the CPU; multiply_parallel runs none
SimdKernel ==
    ParKernel \in {"matrix_multiply_parallel", "matrix_vector_multiply_parallel"}

\* Tensor::multiply, ExecutionMode::Sequential
MultiplySequential ==
    /\ pc = "call" /\ op = "multiply" /\ mode = "Sequential"
    /\ Finish(multiply_sequential(a, b))
    /\ UNCHANGED <<inputs, simd_used, wlog, oob, uaf, th, spawned, joined, idx,
                   lu>>

\* Tensor::multiply, ExecutionMode::SIMD
MultiplySimd ==
    /\ pc = "call" /\ op = "multiply" /\ mode = "SIMD"
    /\ LET r == multiply_simd(a, b)
       IN  /\ Finish(r)
           /\ simd_used' = (r.kind = "Ok" /\ Len(r.val.data) > 0)
    /\ UNCHANGED <<inputs, wlog, oob, uaf, th, spawned, joined, idx, lu>>

\* The same call on a CPU without AVX: the first intrinsic of the first
\* cell is an illegal instruction (the other outcome of this undefined
\* behaviour, running on, is MultiplySimd)
MultiplySimdIllegal ==
    /\ pc = "call" /\ op = "multiply" /\ mode = "SIMD"
    /\ ~supports_avx2
    /\ LET r == multiply_simd(a, b)
       IN  r.kind = "Ok" /\ Len(r.val.data) > 0
    /\ simd_used' = TRUE
    /\ Finish(ErrAlloc("illegal_instruction"))
    /\ UNCHANGED <<inputs, wlog, oob, uaf, th, spawned, joined, idx, lu>>

\* A parallel multiply up to its spawn loop: the checks, the allocation of
\* the result buffer, the division rows / nb_threads.
ParallelBegin ==
    /\ pc = "call" /\ IsParallelCall
    /\ IF ParCheck # "Ok"
       THEN /\ outcome' = ParCheck
            /\ pc' = "done"
            /\ UNCHANGED <<allocated, res, wlog, th>>
       ELSE /\ allocated' = TRUE
            /\ res' = Zeros(ParLen)
            /\ wlog' = [i \in 1..ParLen |-> <<>>]
            /\ IF nb_threads = 0
               THEN \* rows / 0
                    outcome' = "panic" /\ pc' = "done" /\ th' = th
               ELSE /\ th' = [t \in 0..(nb_threads - 1) |-> Idle]
                    /\ pc' = "spawn"
                    /\ outcome' = outcome
    /\ UNCHANGED <<inputs, simd_used, ret, oob, uaf, spawned, joined, idx, written, lu>>

\* One iteration of the spawn loop
Spawn ==
    /\ pc = "spawn"
    /\ LET r == ParRange(spawned)
       IN  th' = [th EXCEPT ![spawned] =
                     [st |-> "running", start |-> r[1], end |-> r[2],
                      cell |-> 0]]
    /\ spawned' = spawned + 1
    /\ pc' = IF spawned + 1 = nb_threads THEN "join" ELSE "spawn"
    /\ UNCHANGED <<inputs, simd_used, outcome, ret, allocated, res, wlog, oob, uaf,
                   joined, idx, written, lu>>

\* Task t computes its next cell and stores it with modify_at
ThreadStep(t) ==
    /\ ProcessAlive
    /\ th[t].st = "running"
    /\ th[t].cell < Work(t)
    /\ LET c == ParCell(th[t].start, th[t].cell)
       IN  IF pc = "done"
           THEN uaf' = TRUE /\ UNCHANGED <<res, wlog, oob>>
           ELSE IF c.index < Len(res)
           THEN /\ res' = [res EXCEPT ![c.index + 1] = c.value]
                /\ wlog' = [wlog EXCEPT ![c.index + 1] = Append(@, t)]
                /\ UNCHANGED <<oob, uaf>>
           ELSE oob' = TRUE /\ UNCHANGED <<res, wlog, uaf>>
    /\ th' = [th EXCEPT ![t].cell = @ + 1]
    /\ simd_used' = (simd_used \/ SimdKernel)
    /\ UNCHANGED <<inputs, pc, outcome, ret, allocated, spawned, joined,
                   idx, written, lu>>

\* Task t reaches an intrinsic on a CPU without AVX: the process dies
ThreadIllegalInstruction(t) ==
    /\ ProcessAlive
    /\ th[t].st = "running"
    /\ th[t].cell < Work(t)
    /\ SimdKernel /\ ~supports_avx2
    /\ simd_used' = TRUE
    /\ outcome' = "illegal_instruction"
    /\ pc' = "done"
    /\ UNCHANGED <<inputs, ret, allocated, res, wlog, oob, uaf, th, spawned,
                   joined, idx, written, lu>>

\* Task t leaves its closure
ThreadExit(t) ==
    /\ ProcessAlive
    /\ th[t].st = "running"
    /\ th[t].cell >= Work(t)
    /\ th' = [th EXCEPT ![t].st = "done"]
    /\ UNCHANGED <<inputs, simd_used, pc, outcome, ret, allocated, res, wlog, oob, uaf,
                   spawned, joined, idx, written, lu>>

\* Task t fails while it still has a cell to compute
ThreadPanic(t) ==
    /\ ProcessAlive
    /\ th[t].st = "running"
    /\ th[t].cell < Work(t)
    /\ th' = [th EXCEPT ![t].st = "panicked"]
    /\ UNCHANGED <<inputs, simd_used, pc, outcome, ret, allocated, res, wlog, oob, uaf,
                   spawned, joined, idx, written, lu>>

\* handle.join() returns Ok: the next handle
JoinOk ==
    /\ pc = "join" /\ joined < nb_threads
    /\ th[joined].st = "done"
    /\ joined' = joined + 1
    /\ UNCHANGED <<inputs, simd_used, pc, outcome, ret, allocated, res, wlog, oob, uaf,
                   th, spawned, idx, written, lu>>

\* handle.join() returns Err: unwrap() panics, the remaining handles and the
\* result buffer are dropped
JoinUnwrap ==
    /\ pc = "join" /\ joined < nb_threads
    /\ th[joined].st = "panicked"
    /\ outcome' = "panic"
    /\ pc' = "done"
    /\ UNCHANGED <<inputs, simd_used, ret, allocated, res, wlog, oob, uaf, th, spawned,
                   joined, idx, written, lu>>

\* Mutant: the result is returned without waiting for the join loop
ParallelReturn_unjoined ==
    /\ pc = "join"
    /\ LET r == TensorNew(res, ParShape)
       IN  outcome' = r.kind /\ ret' = r.val
    /\ pc' = "done"
    /\ UNCHANGED <<inputs, simd_used, allocated, res, wlog, oob, uaf, th, spawned,
                   joined, idx, written, lu>>

\* Tensor::new(result, shape) after the join loop
ParallelReturn ==
    /\ pc = "join" /\ joined = nb_threads
    /\ LET r == TensorNew(res, ParShape)
       IN  outcome' = r.kind /\ ret' = r.val
    /\ pc' = "done"
    /\ UNCHANGED <<inputs, simd_used, allocated, res, wlog, oob, uaf, th, spawned,
                   joined, idx, written, lu>>

\* ------------------------------------------------- multiply: specification

ExecutionModes == {"Sequential", "Parallel", "SIMD", "ParallelSIMD"}

\* The tall shape has more rows than NB_THREADS tasks, so that every task
\* of Tensor::multiply owns at least one row.
AShapes ==
    {<<r, c>> : r \in 0..MaxRows, c \in InnerDims}
    \cup {<<NB_THREADS + 1, 0>>} \cup {<<1>>}
BShapes == {<<r, c>> : r \in InnerDims, c \in 0..MaxBCols} \cup {<<1>>}

MulCalls ==
    {[op |-> "multiply", mode |-> m, nb |-> NB_THREADS] : m \in ExecutionModes}
    \cup {[op |-> o, mode |-> "", nb |-> n] :
            o \in {"matrix_multiply_parallel",
                   "matrix_vector_multiply_parallel"},
            n \in 0..MaxThreads}

InitFrame ==
    /\ pc = "call"
    /\ outcome = "none"
    /\ ret = NoRet
    /\ allocated = FALSE
    /\ res = <<>>
    /\ wlog = <<>>
    /\ oob = FALSE
    /\ uaf = FALSE
    /\ th = <<>>
    /\ spawned = 0
    /\ joined = 0
    /\ idx = 0
    /\ written = 0
    /\ lu = <<>>
    /\ simd_used = FALSE
    /\ history = TrainingHistoryNew
    /\ patience_counter = 0
    /\ epoch = 0

InitMul ==
    /\ SimdProcessorNew(TRUE, FALSE)
    /\ \E call \in MulCalls :
          op = call.op /\ mode = call.mode /\ nb_threads = call.nb
    /\ \E sa \in AShapes, sb \in BShapes, seed \in 0..MaxSeed :
          /\ (sa[1] > MaxRows) => (Len(sb) = 2 /\ sb[2] <= 1)
          /\ a = Tensor(GenData(Product(sa), seed, 0), sa)
          /\ b = Tensor(GenData(Product(sb), seed, 3), sb)
    /\ InitFrame
    /\ config = TrainingConfigDefault

NextMul ==
    \/ MultiplySequential
    \/ MultiplySimd
    \/ ParallelBegin
    \/ Spawn
    \/ \E t \in DOMAIN th : ThreadStep(t)
    \/ \E t \in DOMAIN th : ThreadExit(t)
    \/ \E t \in DOMAIN th : ThreadPanic(t)
    \/ JoinOk
    \/ JoinUnwrap
    \/ ParallelReturn

SpecMul == InitMul /\ [][NextMul]_vars

\* ------------------------------------------------------------------ Matrix

\* struct Matrix<T>: T is modelled by the integers
Matrix(r, c, mat, conc) ==
    [rows |-> r, cols |-> c, mat |-> mat, concurrent |-> conc]

\* Ok with a matrix / with a scalar (no result buffer)
MOk(m) ==
    [kind |-> "Ok", val |-> m, alloc |-> TRUE, buf |-> m.mat,
     written |-> Len(m.mat)]
SOk(x) ==
    [kind |-> "Ok", val |-> x, alloc |-> FALSE, buf |-> <<>>, written |-> 0]

\* A failure decided after k elements of the allocated buffer were stored
ErrWritten(kind, buf, k) ==
    [kind |-> kind, val |-> NoRet, alloc |-> TRUE, buf |-> buf, written |-> k]

Abs(x) == IF x < 0 THEN 0 - x ELSE x

\* T's division: rounds towards zero for the integer types, exact whenever
\* y divides x
DivT(x, y) ==
    LET q == Abs(x) \div Abs(y)
    IN  IF (x < 0) # (y < 0) THEN 0 - q ELSE q

Divides(y, x) == (Abs(x) % Abs(y)) = 0

MatrixNew(r, c) ==
    IF r = 0 \/ c = 0
    THEN Err("InvalidDimensions")
    ELSE MOk(Matrix(r, c, Zeros(r * c), TRUE))

is_square(m) == m.rows = m.cols

\* The dimension checks of add / sub / dot_product and of matrix_multiply
m_same_dims(x, y) == ~(x.rows # y.rows \/ x.cols # y.cols)

\* Mutant: demands the transposed shape as well
m_mul_compatible_strict(x, y) == ~(x.cols # y.rows \/ x.rows # y.cols)

m_mul_compatible(x, y) == ~(x.cols # y.rows)

\* An elementwise binary operation: f is "+", "-" or "*".  Both branches
\* fill every index of the result; the concurrent one drives the loop by
\* result.mat, the sequential one by self.mat.len().
Apply(f, u, v) ==
    CASE f = "+" -> u + v
      [] f = "-" -> u - v
      [] f = "*" -> u * v
      [] f = "/" -> DivT(u, v)

m_elementwise(f, opname, x, y) ==
    IF ~m_same_dims(x, y) THEN Err("IncompatibleDimensions")
    ELSE LET r == MatrixNew(x.rows, x.cols)
         IN  IF r.kind # "Ok" THEN r
             ELSE LET conc == x.concurrent \/ y.concurrent
                      n == IF conc THEN Len(r.val.mat) ELSE Len(x.mat)
                  IN  MOk(Matrix(x.rows, x.cols,
                                 [i \in 1..n |-> Apply(f, x.mat[i], y.mat[i])],
                                 conc))

m_add(x, y) == m_elementwise("+", "addition", x, y)
m_sub(x, y) == m_elementwise("-", "subtraction", x, y)
dot_product(x, y) == m_elementwise("*", "element-wise multiplication", x, y)

m_matrix_multiply(x, y) ==
    IF ~m_mul_compatible(x, y) THEN Err("IncompatibleDimensions")
    ELSE LET r == MatrixNew(x.rows, y.cols)
         IN  IF r.kind # "Ok" THEN r
             ELSE MOk(Matrix(x.rows, y.cols,
                    [p \in 1..(x.rows * y.cols) |->
                        LET i == (p - 1) \div y.cols
                            j == (p - 1) % y.cols
                        IN  SumTo([k \in 0..(x.cols - 1) |->
                                      At(x.mat, i * x.cols + k)
                                        * At(y.mat, k * y.cols + j)],
                                  x.cols)],
                    x.concurrent \/ y.concurrent))

\* Matrix / scalar
m_div(x, scalar) ==
    IF scalar = 0 THEN Err("DivisionByZero")
    ELSE LET r == MatrixNew(x.rows, x.cols)
         IN  IF r.kind # "Ok" THEN r
             ELSE MOk(Matrix(x.rows, x.cols,
                             [i \in 1..Len(x.mat) |-> DivT(x.mat[i], scalar)],
                             x.concurrent))

trace(m) ==
    IF ~is_square(m) THEN Err("NotSquareMatrix")
    ELSE SOk(SumTo([i \in 0..(m.rows - 1) |-> At(m.mat, i * m.cols + i)],
                   m.rows))

\* ------------------------------------------------------------ determinant

RECURSIVE pivot_scan(_, _, _, _, _)
\* for k in (i + 1)..n: max_row = k when
\*   m[k][i] > m[max_row][i] || m[k][i] < 0 - m[max_row][i]
pivot_scan(m, i, n, k, max_row) ==
    IF k >= n THEN max_row
    ELSE LET v == At(m, k * n + i)
             cur == At(m, max_row * n + i)
         IN  pivot_scan(m, i, n, k + 1,
                        IF v > cur \/ v < 0 - cur THEN k ELSE max_row)

swap_rows(m, n, r1, r2) ==
    [p \in 1..(n * n) |->
        LET r == (p - 1) \div n
            c == (p - 1) % n
        IN  IF r = r1 THEN At(m, r2 * n + c)
            ELSE IF r = r2 THEN At(m, r1 * n + c)
            ELSE m[p]]

\* Rows below i: m[k][j] -= (m[k][i] / m[i][i]) * m[i][j] for j in i..n
eliminate(m, i, n) ==
    [p \in 1..(n * n) |->
        LET k == (p - 1) \div n
            j == (p - 1) % n
        IN  IF k > i /\ j >= i
            THEN m[p] - DivT(At(m, k * n + i), At(m, i * n + i))
                          * At(m, i * n + j)
            ELSE m[p]]

\* determinant_lu before its loop.  exact records that every division so
\* far was exact; pre is the matrix the last step started from.
LuInit(m) ==
    [m |-> m.mat, pre |-> m.mat, det |-> 1, i |-> 0, n |-> m.rows,
     max_row |-> 0, exact |-> TRUE, done |-> m.rows = 0, zero_exit |-> FALSE,
     value |-> 1]

\* One iteration of `for i in 0..n`
lu_step(s) ==
    LET n == s.n
        i == s.i
        max_row == pivot_scan(s.m, i, n, i + 1, i)
        m1 == IF max_row # i THEN swap_rows(s.m, n, i, max_row) ELSE s.m
        det1 == IF max_row # i THEN 0 - s.det ELSE s.det
        piv == At(m1, i * n + i)
    IN  IF piv = 0
        THEN [s EXCEPT !.pre = s.m, !.m = m1, !.det = det1,
                       !.max_row = max_row, !.done = TRUE,
                       !.zero_exit = TRUE, !.value = 0]
        ELSE [m |-> eliminate(m1, i, n), pre |-> s.m, det |-> det1 * piv,
              i |-> i + 1, n |-> n, max_row |-> max_row,
              exact |-> s.exact /\ \A k \in (i + 1)..(n - 1) :
                                      Divides(piv, At(m1, k * n + i)),
              done |-> (i + 1 = n), zero_exit |-> FALSE,
              value |-> det1 * piv]

RECURSIVE lu_run(_)
lu_run(s) == IF s.done THEN s ELSE lu_run(lu_step(s))

determinant_lu(m) == SOk(lu_run(LuInit(m)).value)

determinant(m) ==
    IF ~is_square(m) THEN Err("NotSquareMatrix")
    ELSE IF m.rows = 1 THEN SOk(At(m.mat, 0))
    ELSE IF m.rows = 2
    THEN SOk(At(m.mat, 0) * At(m.mat, 3) - At(m.mat, 1) * At(m.mat, 2))
    ELSE determinant_lu(m)

\* Every division determinant(m) performs is exact
ExactElimination(m) ==
    (is_square(m) /\ m.rows >= 3) => lu_run(LuInit(m)).exact

minor_matrix(m, exclude_row, exclude_col) ==
    IF m.rows <= 1 \/ m.cols <= 1 THEN Err("InvalidDimensions")
    ELSE LET r == MatrixNew(m.rows - 1, m.cols - 1)
             w == m.cols - 1
         IN  IF r.kind # "Ok" THEN r
             ELSE MOk(Matrix(m.rows - 1, w,
                    [p \in 1..((m.rows - 1) * w) |->
                        LET rr == (p - 1) \div w
                            rc == (p - 1) % w
                            i == IF rr < exclude_row THEN rr ELSE rr + 1
                            j == IF rc < exclude_col THEN rc ELSE rc + 1
                        IN  At(m.mat, i * m.cols + j)],
                    TRUE))

\* Mutant: the sign of the cell is dropped
cofactor_cell_unsigned(m, i, j) ==
    LET minor == minor_matrix(m, i, j)
    IN  IF minor.kind # "Ok" THEN minor ELSE determinant(minor.val)

\* One cell of the cofactor matrix
cofactor_cell(m, i, j) ==
    LET minor == minor_matrix(m, i, j)
    IN  IF minor.kind # "Ok" THEN minor
        ELSE LET d == determinant(minor.val)
             IN  IF d.kind # "Ok" THEN d
                 ELSE SOk(IF (i + j) % 2 = 0 THEN d.val ELSE 0 - d.val)

cofactor_matrix(m) ==
    IF ~is_square(m) THEN Err("NotSquareMatrix")
    ELSE LET r == MatrixNew(m.rows, m.cols)
             cells == [p \in 1..(m.rows * m.cols) |->
                          cofactor_cell(m, (p - 1) \div m.cols,
                                        (p - 1) % m.cols)]
             bad == {p \in 1..(m.rows * m.cols) : cells[p].kind # "Ok"}
         IN  IF r.kind # "Ok" THEN r
             ELSE IF bad # {}
             THEN \* the first failing cell: unwrap() panics in the
                  \* concurrent branch, `?` returns the error otherwise
                  LET first == CHOOSE p \in bad : \A q \in bad : p <= q
                  IN  IF m.concurrent
                      THEN ErrWritten("panic", <<>>, 0)
                      ELSE ErrWritten(cells[first].kind, <<>>, first - 1)
             ELSE MOk(Matrix(m.rows, m.cols,
                             [p \in 1..(m.rows * m.cols) |-> cells[p].val],
                             m.concurrent))

\* --------------------------------------------- determinant: specification

\* Matrix::determinant up to the loop of determinant_lu (sizes 1 and 2 and
\* the non-square error return at once)
DeterminantCall ==
    /\ pc = "call" /\ op = "determinant"
    /\ IF is_square(a) /\ a.rows >= 3
       THEN /\ lu' = LuInit(a)
            /\ pc' = "lu"
            /\ UNCHANGED <<outcome, ret, allocated, res, written>>
       ELSE Finish(determinant(a)) /\ lu' = lu
    /\ UNCHANGED <<inputs, simd_used, wlog, oob, uaf, th, spawned, joined, idx>>

\* One iteration of the loop of determinant_lu
LuStep ==
    /\ pc = "lu" /\ ~lu.done
    /\ lu' = lu_step(lu)
    /\ UNCHANGED <<inputs, simd_used, pc, outcome, ret, allocated, res, wlog, oob, uaf,
                   th, spawned, joined, idx, written>>

\* Ok(det), or Ok(T::default()) from the zero-pivot exit
LuReturn ==
    /\ pc = "lu" /\ lu.done
    /\ Finish(SOk(lu.value))
    /\ UNCHANGED <<inputs, simd_used, wlog, oob, uaf, th, spawned, joined, idx, lu>>

\* Sizes of the square inputs and the entries outside the first column
DetSizes == {1, 2, 3}
Entries == {-1, 0, 1}

\* a is a square matrix, b is a with the rows r1 < r2 exchanged (b = a for
\* size 1, which has no two rows)
InitDet ==
    /\ SimdProcessorNew(TRUE, FALSE)
    /\ op = "determinant" /\ mode = "" /\ nb_threads = 0
    /\ \E n \in DetSizes :
       \E col0 \in [0..(n - 1) -> (0 - MaxVal)..MaxVal],
          rest \in [0..(n * (n - 1) - 1) -> Entries],
          r1, r2 \in 0..(n - 1) :
          /\ r1 < r2 \/ (n = 1 /\ r1 = r2)
          /\ LET mat == [p \in 1..(n * n) |->
                            LET r == (p - 1) \div n
                                c == (p - 1) % n
                            IN  IF c = 0 THEN col0[r]
                                ELSE rest[r * (n - 1) + c - 1]]
             IN  /\ a = Matrix(n, n, mat, TRUE)
                 /\ b = Matrix(n, n, swap_rows(mat, n, r1, r2), TRUE)
    /\ InitFrame
    /\ config = TrainingConfigDefault

NextDet == DeterminantCall \/ LuStep \/ LuReturn

SpecDet == InitDet /\ [][NextDet]_vars

\* ------------------------------------------- elementwise tensor operations

Min(x, y) == IF x < y THEN x ELSE y

\* tensor.rs check_same_shape
check_same_shape(x, y) == IF x.shape # y.shape THEN "ShapeMismatch" ELSE "Ok"

\* ops.rs: impl Add / Sub for &Tensor (zip, collect, Tensor::new)
t_zip(f, x, y) ==
    IF check_same_shape(x, y) # "Ok" THEN Err("ShapeMismatch")
    ELSE TensorNew([i \in 1..Min(Len(x.data), Len(y.data)) |->
                       Apply(f, x.data[i], y.data[i])],
                   x.shape)

t_add(x, y) == t_zip("+", x, y)
t_sub(x, y) == t_zip("-", x, y)

RECURSIVE argmax_scan(_, _, _)
\* for (i, &val) in data.iter().enumerate(): keep the first maximum
argmax_scan(data, i, max_idx) ==
    IF i >= Len(data) THEN max_idx
    ELSE argmax_scan(data, i + 1,
                     IF At(data, i) > At(data, max_idx) THEN i ELSE max_idx)

\* Tensor::argmax; `self.data[0]` is a checked index
argmax(t) ==
    IF t.rank # 2 THEN Err("DimensionError")
    ELSE IF t.shape[2] # 1 THEN Err("DimensionError")
    ELSE IF Len(t.data) = 0 THEN Err("panic")
    ELSE SOk(argmax_scan(t.data, 0, 0))

ComputeModes == {"Single", "MultiThread", "SimdMultiThread"}

\* `other.data.iter().any(|&x| x == 0.0)`
any_zero(data) == \E i \in 1..Len(data) : data[i] = 0

TensorAdd ==
    /\ pc = "call" /\ op = "add"
    /\ Finish(t_add(a, b))
    /\ UNCHANGED <<inputs, simd_used, wlog, oob, uaf, th, spawned, joined, idx, lu>>

TensorSub ==
    /\ pc = "call" /\ op = "sub"
    /\ Finish(t_sub(a, b))
    /\ UNCHANGED <<inputs, simd_used, wlog, oob, uaf, th, spawned, joined, idx, lu>>

\* Tensor::hadamard: check_same_shape, zip, collect, Tensor::new
hadamard(x, y) == t_zip("*", x, y)

TensorHadamard ==
    /\ pc = "call" /\ op = "hadamard"
    /\ Finish(hadamard(a, b))
    /\ UNCHANGED <<inputs, simd_used, wlog, oob, uaf, th, spawned, joined, idx, lu>>

TensorArgmax ==
    /\ pc = "call" /\ op = "argmax"
    /\ Finish(argmax(a))
    /\ UNCHANGED <<inputs, simd_used, wlog, oob, uaf, th, spawned, joined, idx, lu>>

\* tns.rs Tensor::divide up to its `match mode`, and the whole of the
\* MultiThread and SimdMultiThread arms.  The quotient of two f32 is
\* modelled on the integers; what matters here is which stores happen.
DivideCall ==
    /\ pc = "call" /\ op = "divide"
    /\ IF check_same_shape(a, b) # "Ok"
       THEN Finish(Err("ShapeMismatch")) /\ idx' = idx
       ELSE LET result == Zeros(Product(a.shape))     \* Tensor::zeros
            IN  IF mode = "Single"
                THEN /\ allocated' = TRUE
                     /\ res' = result
                     /\ idx' = 0
                     /\ pc' = "loop"
                     /\ UNCHANGED <<outcome, ret, written>>
                ELSE /\ idx' = idx
                     /\ IF any_zero(b.data)
                        THEN Finish(ErrWritten("InvalidOperation", result, 0))
                        ELSE Finish(Ok(Tensor(
                                 [i \in 1..Len(result) |->
                                     DivT(a.data[i], b.data[i])],
                                 a.shape)))
    /\ UNCHANGED <<inputs, simd_used, wlog, oob, uaf, th, spawned, joined, lu>>

\* One iteration of the ComputeMode::Single loop, or Ok(result) after it
DivideSingleStep ==
    /\ pc = "loop"
    /\ IF idx >= Len(a.data)
       THEN /\ outcome' = "Ok"
            /\ ret' = Tensor(res, a.shape)
            /\ pc' = "done"
            /\ UNCHANGED <<res, idx, written>>
       ELSE IF At(b.data, idx) = 0
       THEN /\ outcome' = "InvalidOperation"
            /\ pc' = "done"
            /\ UNCHANGED <<ret, res, idx, written>>
       ELSE /\ res' = [res EXCEPT ![idx + 1] =
                          DivT(At(a.data, idx), At(b.data, idx))]
            /\ written' = written + 1
            /\ idx' = idx + 1
            /\ UNCHANGED <<pc, outcome, ret>>
    /\ UNCHANGED <<inputs, simd_used, allocated, wlog, oob, uaf, th, spawned, joined, lu>>

\* ---------------------------------------------- factories and unary ops

Fill(n, v) == [i \in 1..n |-> v]

\* Tensor::zeros / ones / fill / scalar / random: no test of the shape.
\* The samples of random are modelled by GenData.
TensorZeros(shape) == Ok(Tensor(Fill(Product(shape), 0), shape))
TensorOnes(shape) == Ok(Tensor(Fill(Product(shape), 1), shape))
TensorFill(shape, value) == Ok(Tensor(Fill(Product(shape), value), shape))
TensorScalar(value) == Ok(Tensor(<<value>>, <<1>>))
TensorRandom(shape, seed) == Ok(Tensor(GenData(Product(shape), seed, 0), shape))

\* Tensor::scale / square keep the shape
scale(t, scalar) ==
    Ok(Tensor([i \in 1..Len(t.data) |-> t.data[i] * scalar], t.shape))
square(t) ==
    Ok(Tensor([i \in 1..Len(t.data) |-> t.data[i] * t.data[i]], t.shape))

\* Matrix::new_sequential
MatrixNewSequential(r, c) ==
    IF r = 0 \/ c = 0
    THEN Err("InvalidDimensions")
    ELSE MOk(Matrix(r, c, Zeros(r * c), FALSE))

\* Mutant: the length of the buffer is not compared
from_vec_unchecked(r, c, data, conc) ==
    IF r = 0 \/ c = 0 THEN Err("InvalidDimensions")
    ELSE MOk(Matrix(r, c, data, conc))

\* Matrix::from_vec (conc) / from_vec_sequential (~conc)
from_vec(r, c, data, conc) ==
    IF r = 0 \/ c = 0 THEN Err("InvalidDimensions")
    ELSE IF Len(data) # r * c THEN Err("DimensionMismatch")
    ELSE MOk(Matrix(r, c, data, conc))

\* Mutant: the diagonal is left at the default
identity_default(size) == MatrixNew(size, size)

\* Matrix::identity: new(size, size), then mat[(i, i)] = 1
identity(size) ==
    LET r == MatrixNew(size, size)
    IN  IF r.kind # "Ok" THEN r
        ELSE MOk([r.val EXCEPT !.mat =
                    [p \in 1..(size * size) |->
                        IF (p - 1) \div size = (p - 1) % size
                        THEN 1 ELSE r.val.mat[p]]])

\* Matrix::ones
MatrixOnes(r, c) ==
    IF r = 0 \/ c = 0
    THEN Err("InvalidDimensions")
    ELSE MOk(Matrix(r, c, Fill(r * c, 1), TRUE))

\* Mutant: the buffer is kept as it is under the swapped dimensions
m_transpose_reshape(m) ==
    MOk(Matrix(m.cols, m.rows, m.mat, m.concurrent))

\* Matrix::transpose: the concurrent branch fills the chunks of length
\* self.rows of the result, the sequential one walks self
m_transpose(m) ==
    LET r == MatrixNew(m.cols, m.rows)
    IN  IF r.kind # "Ok" THEN r
        ELSE IF m.concurrent
        THEN MOk(Matrix(m.cols, m.rows,
                        [p \in 1..Len(r.val.mat) |->
                            LET new_row == (p - 1) \div m.rows
                                new_col == (p - 1) % m.rows
                            IN  At(m.mat, new_col * m.cols + new_row)],
                        TRUE))
        ELSE MOk(Matrix(m.cols, m.rows,
                        [q \in 1..(m.rows * m.cols) |->
                            \* result.mat[j * rows + i] = self.mat[i * cols + j]
                            LET j == (q - 1) \div m.rows
                                i == (q - 1) % m.rows
                            IN  At(m.mat, i * m.cols + j)],
                        FALSE))

\* impl Mul<T> for Matrix, impl Neg for Matrix
m_mul_scalar(m, scalar) ==
    LET r == MatrixNew(m.rows, m.cols)
    IN  IF r.kind # "Ok" THEN r
        ELSE MOk(Matrix(m.rows, m.cols,
                        [i \in 1..(IF m.concurrent THEN Len(r.val.mat)
                                                   ELSE Len(m.mat)) |->
                            m.mat[i] * scalar],
                        m.concurrent))

\* Mutant: the result keeps the flag Matrix::new gave it
m_neg_new_flag(m) ==
    LET r == MatrixNew(m.rows, m.cols)
    IN  IF r.kind # "Ok" THEN r
        ELSE MOk([r.val EXCEPT !.mat = [i \in 1..Len(m.mat) |-> 0 - m.mat[i]]])

m_neg(m) ==
    LET r == MatrixNew(m.rows, m.cols)
    IN  IF r.kind # "Ok" THEN r
        ELSE MOk(Matrix(m.rows, m.cols,
                        [i \in 1..(IF m.concurrent THEN Len(r.val.mat)
                                                   ELSE Len(m.mat)) |->
                            0 - m.mat[i]],
                        m.concurrent))

\* Ok with a Vec<T>
VOk(v) ==
    [kind |-> "Ok", val |-> v, alloc |-> TRUE, buf |-> v, written |-> Len(v)]

\* Matrix::col: both branches map r to mat[r * cols + col]
col(m, c) ==
    IF c >= m.cols THEN Err("InvalidColumnDimension")
    ELSE VOk([r \in 1..m.rows |-> At(m.mat, (r - 1) * m.cols + c)])

\* Mutant: the elements of self are scaled where they are
TensorScale_in_place ==
    /\ pc = "call" /\ op = "scale"
    /\ a' = scale(a, b).val
    /\ outcome' = "Ok" /\ ret' = scale(a, b).val /\ pc' = "done"
    /\ UNCHANGED <<op, mode, nb_threads, b, supports_avx2, supports_avx512,
                   simd_width, simd_used, allocated, res, written, wlog,
                   oob, uaf, th, spawned, joined, idx, lu, training>>

\* Tensor::scale: b is the scalar
TensorScale ==
    /\ pc = "call" /\ op = "scale"
    /\ Finish(scale(a, b))
    /\ UNCHANGED <<inputs, simd_used, wlog, oob, uaf, th, spawned, joined, idx, lu>>

\* ---------------------------------------------------- Matrix: operations

MatrixAdd ==
    /\ pc = "call" /\ op = "m_add"
    /\ Finish(m_add(a, b))
    /\ UNCHANGED <<inputs, simd_used, wlog, oob, uaf, th, spawned, joined, idx, lu>>

MatrixSub ==
    /\ pc = "call" /\ op = "m_sub"
    /\ Finish(m_sub(a, b))
    /\ UNCHANGED <<inputs, simd_used, wlog, oob, uaf, th, spawned, joined, idx, lu>>

MatrixDotProduct ==
    /\ pc = "call" /\ op = "dot_product"
    /\ Finish(dot_product(a, b))
    /\ UNCHANGED <<inputs, simd_used, wlog, oob, uaf, th, spawned, joined, idx, lu>>

MatrixMatrixMultiply ==
    /\ pc = "call" /\ op = "m_matrix_multiply"
    /\ Finish(m_matrix_multiply(a, b))
    /\ UNCHANGED <<inputs, simd_used, wlog, oob, uaf, th, spawned, joined, idx, lu>>

\* Matrix / scalar: b is the scalar
MatrixDiv ==
    /\ pc = "call" /\ op = "m_div"
    /\ Finish(m_div(a, b))
    /\ UNCHANGED <<inputs, simd_used, wlog, oob, uaf, th, spawned, joined, idx, lu>>

MatrixTrace ==
    /\ pc = "call" /\ op = "trace"
    /\ Finish(trace(a))
    /\ UNCHANGED <<inputs, simd_used, wlog, oob, uaf, th, spawned, joined, idx, lu>>

MatrixCofactor ==
    /\ pc = "call" /\ op = "cofactor_matrix"
    /\ Finish(cofactor_matrix(a))
    /\ UNCHANGED <<inputs, simd_used, wlog, oob, uaf, th, spawned, joined, idx, lu>>

MatrixTranspose ==
    /\ pc = "call" /\ op = "m_transpose"
    /\ Finish(m_transpose(a))
    /\ UNCHANGED <<inputs, simd_used, wlog, oob, uaf, th, spawned, joined, idx, lu>>

MatrixNeg ==
    /\ pc = "call" /\ op = "m_neg"
    /\ Finish(m_neg(a))
    /\ UNCHANGED <<inputs, simd_used, wlog, oob, uaf, th, spawned, joined, idx, lu>>

\* Matrix * scalar: b is the scalar
MatrixMulScalar ==
    /\ pc = "call" /\ op = "m_mul_scalar"
    /\ Finish(m_mul_scalar(a, b))
    /\ UNCHANGED <<inputs, simd_used, wlog, oob, uaf, th, spawned, joined, idx, lu>>

\* Matrix::col: b is the column
MatrixCol ==
    /\ pc = "call" /\ op = "col"
    /\ Finish(col(a, b))
    /\ UNCHANGED <<inputs, simd_used, wlog, oob, uaf, th, spawned, joined, idx, lu>>

\* Tensor::transpose
TensorTranspose ==
    /\ pc = "call" /\ op = "transpose"
    /\ Finish(transpose(a))
    /\ UNCHANGED <<inputs, simd_used, wlog, oob, uaf, th, spawned, joined, idx, lu>>

\* ------------------------------------------------ operations: specification

OpsDims == {1, 2, 3}
OpsShapes == {<<r, c>> : r \in 1..2, c \in 1..2} \cup {<<1>>, <<2>>}
Scalars == {0, 1, 2}

MatrixBinaryOps == {"m_add", "m_sub", "dot_product", "m_matrix_multiply"}
MatrixUnaryOps == {"trace", "determinant", "cofactor_matrix", "m_transpose",
                   "m_neg"}
MatrixScalarOps == {"m_div", "m_mul_scalar", "col"}

\* Matrix::set_concurrent
SetFlag(m, f) == [m EXCEPT !.concurrent = f]

GenMatrix(r, c, seed, salt, conc) ==
    Matrix(r, c, GenData(r * c, seed, salt), conc)

InitTensorOps ==
    /\ \/ \E call \in MulCalls :
             op = call.op /\ mode = call.mode /\ nb_threads = call.nb
       \/ op \in {"add", "sub", "hadamard"} /\ mode = "" /\ nb_threads = 0
       \/ op = "divide" /\ mode \in ComputeModes /\ nb_threads = 0
    /\ \E sa \in OpsShapes, sb \in OpsShapes, seed \in 0..MaxSeed :
          /\ a = Tensor(GenData(Product(sa), seed, 0), sa)
          /\ b = Tensor(GenData(Product(sb), seed, 3), sb)

\* Calls with one tensor operand; Tensor::zeros(&[0, 1]) has no elements
UnaryShapes == OpsShapes \cup {<<0, 1>>, <<3, 1>>}

InitTensorUnary ==
    /\ mode = "" /\ nb_threads = 0
    /\ \E sa \in UnaryShapes, seed \in 0..MaxSeed :
          a = Tensor(GenData(Product(sa), seed, 0), sa)
    /\ \/ op \in {"argmax", "transpose"} /\ b = a
       \/ op = "scale" /\ b \in Scalars

InitMatrixOps ==
    \/ /\ mode = "" /\ nb_threads = 0
       /\ \E r \in OpsDims, c \in OpsDims, seed \in 0..MaxSeed, ca \in BOOLEAN :
          /\ a = GenMatrix(r, c, seed, 0, ca)
          /\ \/ /\ op \in MatrixBinaryOps
                /\ \E r2 \in OpsDims, c2 \in OpsDims, cb \in BOOLEAN :
                      b = GenMatrix(r2, c2, seed, 3, cb)
             \/ op \in MatrixUnaryOps /\ b = a
             \/ op \in MatrixScalarOps /\ b \in Scalars
    \* a 4x4 matrix, whose minors go through determinant_lu
    \/ /\ mode = "" /\ nb_threads = 0 /\ op = "cofactor_matrix"
       /\ \E seed \in 0..MaxSeed, ca \in BOOLEAN :
             a = GenMatrix(4, 4, seed, 0, ca) /\ b = a
    \* a product with Matrix::identity on either side
    \/ /\ mode = "" /\ nb_threads = 0 /\ op = "m_matrix_multiply"
       /\ \E r \in OpsDims, c \in OpsDims, seed \in 0..MaxSeed,
             cm \in BOOLEAN, ci \in BOOLEAN :
             \/ /\ a = GenMatrix(r, c, seed, 0, cm)
                /\ b = SetFlag(identity(c).val, ci)
             \/ /\ a = SetFlag(identity(r).val, ci)
                /\ b = GenMatrix(r, c, seed, 3, cm)

InitOps ==
    /\ SimdProcessorNew(TRUE, FALSE)
    /\ InitTensorOps \/ InitTensorUnary \/ InitMatrixOps
    /\ InitFrame
    /\ config = TrainingConfigDefault

NextOps ==
    \/ MultiplySequential
    \/ MultiplySimd
    \/ ParallelBegin
    \/ Spawn
    \/ \E t \in DOMAIN th : ThreadStep(t)
    \/ \E t \in DOMAIN th : ThreadExit(t)
    \/ \E t \in DOMAIN th : ThreadPanic(t)
    \/ JoinOk
    \/ JoinUnwrap
    \/ ParallelReturn
    \/ TensorAdd
    \/ TensorSub
    \/ TensorHadamard
    \/ TensorScale
    \/ TensorArgmax
    \/ DivideCall
    \/ DivideSingleStep
    \/ MatrixAdd
    \/ MatrixSub
    \/ MatrixDotProduct
    \/ MatrixMatrixMultiply
    \/ MatrixDiv
    \/ MatrixTrace
    \/ MatrixCofactor
    \/ MatrixTranspose
    \/ MatrixNeg
    \/ MatrixMulScalar
    \/ MatrixCol
    \/ TensorTranspose
    \/ DeterminantCall
    \/ LuStep
    \/ LuReturn

SpecOps == InitOps /\ [][NextOps]_vars

\* ------------------------------------------------ factories: specification

TensorFactories == {"t_new", "t_zeros", "t_ones", "t_fill", "t_scalar",
                    "t_random"}
MatrixFactories == {"m_new", "m_new_sequential", "m_from_vec",
                    "m_from_vec_sequential", "m_identity", "m_zeros",
                    "m_ones"}

\* The factory `f` called with the arguments args = [shape, data] and the
\* scalar v
tensor_factory(f, args, v) ==
    CASE f = "t_new" -> TensorNew(args.data, args.shape)
      [] f = "t_zeros" -> TensorZeros(args.shape)
      [] f = "t_ones" -> TensorOnes(args.shape)
      [] f = "t_fill" -> TensorFill(args.shape, v)
      [] f = "t_scalar" -> TensorScalar(v)
      [] f = "t_random" -> TensorRandom(args.shape, v)

matrix_factory(f, args) ==
    LET r == args.shape[1]
        c == args.shape[2]
    IN  CASE f = "m_new" -> MatrixNew(r, c)
          [] f = "m_new_sequential" -> MatrixNewSequential(r, c)
          [] f = "m_from_vec" -> from_vec(r, c, args.data, TRUE)
          [] f = "m_from_vec_sequential" -> from_vec(r, c, args.data, FALSE)
          [] f = "m_identity" -> identity(r)
          [] f = "m_zeros" -> MatrixNew(r, c)
          [] f = "m_ones" -> MatrixOnes(r, c)

\* The value a factory returned becomes live
Construct(r) ==
    /\ outcome' = r.kind
    /\ ret' = r.val
    /\ allocated' = r.alloc
    /\ res' = r.buf
    /\ written' = r.written
    /\ pc' = IF r.kind = "Ok" THEN "live" ELSE "done"

TensorFactory ==
    /\ pc = "call" /\ op \in TensorFactories
    /\ Construct(tensor_factory(op, a, b))
    /\ UNCHANGED <<inputs, simd_used, wlog, oob, uaf, th, spawned, joined, idx, lu>>

MatrixFactory ==
    /\ pc = "call" /\ op \in MatrixFactories
    /\ Construct(matrix_factory(op, a))
    /\ UNCHANGED <<inputs, simd_used, wlog, oob, uaf, th, spawned, joined, idx, lu>>

\* An operation on the live value: its result replaces the value, an error
\* leaves it as it was
Operate(r) ==
    /\ idx < MaxOps
    /\ idx' = idx + 1
    /\ outcome' = r.kind
    /\ ret' = IF r.kind = "Ok" THEN r.val ELSE ret
    /\ UNCHANGED <<inputs, simd_used, pc, allocated, res, written, wlog, oob, uaf, th,
                   spawned, joined, lu>>

LiveTensor == pc = "live" /\ op \in TensorFactories
LiveMatrix == pc = "live" /\ op \in MatrixFactories

LiveTensorTranspose == LiveTensor /\ Operate(transpose(ret))
LiveTensorScale == LiveTensor /\ Operate(scale(ret, b))
LiveTensorSquare == LiveTensor /\ Operate(square(ret))
LiveMatrixTranspose == LiveMatrix /\ Operate(m_transpose(ret))
LiveMatrixMulScalar == LiveMatrix /\ Operate(m_mul_scalar(ret, b))
LiveMatrixNeg == LiveMatrix /\ Operate(m_neg(ret))

Dims == 0..MaxDim
NewShapes == {<<>>} \cup {<<r>> : r \in Dims} \cup {<<r, c>> : r, c \in Dims}

InitNew ==
    /\ SimdProcessorNew(TRUE, FALSE)
    /\ mode = "" /\ nb_threads = 0
    /\ b \in Scalars
    /\ \/ /\ op \in TensorFactories
          /\ \E sh \in NewShapes, n \in 0..MaxLen :
                /\ op # "t_new" => n = 0
                /\ a = [shape |-> sh, data |-> GenData(n, 0, 0)]
       \/ /\ op \in MatrixFactories
          /\ \E r \in Dims, c \in Dims, n \in 0..MaxLen :
                /\ op \notin {"m_from_vec", "m_from_vec_sequential"} => n = 0
                /\ op = "m_identity" => c = r
                /\ a = [shape |-> <<r, c>>, data |-> GenData(n, 0, 0)]
    /\ InitFrame
    /\ config = TrainingConfigDefault

NextNew ==
    \/ TensorFactory
    \/ MatrixFactory
    \/ LiveTensorTranspose
    \/ LiveTensorScale
    \/ LiveTensorSquare
    \/ LiveMatrixTranspose
    \/ LiveMatrixMulScalar
    \/ LiveMatrixNeg

SpecNew == InitNew /\ [][NextNew]_vars

\* --------------------------------------- tns.rs: the ComputeMode engine

Max(x, y) == IF x > y THEN x ELSE y

\* `std::cmp::max(1000, num_cpus::get() * 100)`
ChunkSize(num_cpus) == Max(MIN_CHUNK, num_cpus * 100)

\* tns.rs struct Tensor; its simd_processor holds the probe's answer,
\* which is supports_avx2 for every tensor of the process
TnsTensor(data, shape, chunk_size) ==
    [data |-> data, rank |-> Len(shape), shape |-> shape,
     chunk_size |-> chunk_size]

\* tns.rs Tensor::zeros
TnsZeros(shape, chunk_size) ==
    TnsTensor(Zeros(Product(shape)), shape, chunk_size)

\* add_avx2 / mul_avx2: blocks of 8 lanes up to simd_len, then the rest
slice_avx2(f, x, y) ==
    LET len == Len(x)
        simd_len == len - (len % 8)
    IN  [p \in 1..len |->
            IF p - 1 < simd_len
            THEN LET i == ((p - 1) \div 8) * 8
                     lane == (p - 1) % 8
                 IN  Apply(f, At(x, i + lane), At(y, i + lane))
            ELSE Apply(f, At(x, p - 1), At(y, p - 1))]

\* add_scalar / mul_scalar
slice_scalar(f, x, y) ==
    [p \in 1..Len(x) |-> Apply(f, At(x, p - 1), At(y, p - 1))]

\* SimdProcessor::add_slice / mul_slice (the asserts hold for the slices
\* the engine passes)
simd_slice(f, x, y, avx2) ==
    IF avx2 THEN slice_avx2(f, x, y) ELSE slice_scalar(f, x, y)

\* add_slice / mul_slice execute a vector instruction
slice_vector(x, avx2) == avx2 /\ Len(x) - (Len(x) % 8) > 0

\* Mutant: only the whole chunks
NumChunks_whole(n, cs) == n \div cs

\* The chunks of par_chunks_mut(chunk_size) over n elements
NumChunks(n, cs) == (n + cs - 1) \div cs
ChunkLen(n, cs, chunk_idx) == Min(cs, n - chunk_idx * cs)

\* on: start and len
chunk_range(x, n, cs, chunk_idx) ==
    LET start == chunk_idx * cs
        end == Min(start + ChunkLen(n, cs, chunk_idx), Len(x))
    IN  [start |-> start, len |-> end - start]

RECURSIVE chunked(_, _, _, _, _, _, _)
\* The n result elements from chunk chunk_idx on, after the chunks ran
chunked(f, x, y, n, cs, avx2, chunk_idx) ==
    IF chunk_idx >= NumChunks(n, cs) THEN <<>>
    ELSE LET r == chunk_range(x, n, cs, chunk_idx)
             out == simd_slice(f, SubSeq(x, r.start + 1, r.start + r.len),
                               SubSeq(y, r.start + 1, r.start + r.len), avx2)
         IN  out \o Zeros(ChunkLen(n, cs, chunk_idx) - r.len)
                 \o chunked(f, x, y, n, cs, avx2, chunk_idx + 1)

\* The chunks that store into result index i (0-based)
chunk_writers(x, n, cs, i) ==
    {k \in 0..(NumChunks(n, cs) - 1) :
        LET r == chunk_range(x, n, cs, k)
        IN  k * cs <= i /\ i < k * cs + r.len}

\* Some chunk executes a vector instruction
chunk_vector(x, n, cs, avx2) ==
    \E k \in 0..(NumChunks(n, cs) - 1) :
        slice_vector(Zeros(chunk_range(x, n, cs, k).len), avx2)

\* The element loop of the Single and MultiThread arms
elementwise(f, x, y) == [p \in 1..Len(x) |-> Apply(f, x[p], y[p])]

\* result.data after the SimdMultiThread arm: what the chunks stored, the
\* zeros of Tensor::zeros elsewhere
simd_arm(f, x, y, result) ==
    LET n == Len(result.data)
        d == chunked(f, x, y, n, result.chunk_size, supports_avx2, 0)
    IN  d \o SubSeq(result.data, Len(d) + 1, n)

\* Tensor::add / sub / multiply in mode m.  sub has no SIMD arm: it runs
\* the element loop.
tns_binary(f, x, y, m) ==
    IF x.shape # y.shape THEN Err("ShapeMismatch")
    ELSE LET result == TnsZeros(x.shape, x.chunk_size)
         IN  Ok([result EXCEPT !.data =
                    IF m = "SimdMultiThread" /\ f # "-"
                    THEN simd_arm(f, x.data, y.data, result)
                    ELSE elementwise(f, x.data, y.data)])

\* Tensor::scalar_multiply: scalar_vec = vec![scalar; len] in the SIMD arm
scalar_multiply(x, scalar, m) ==
    LET result == TnsZeros(x.shape, x.chunk_size)
    IN  Ok([result EXCEPT !.data =
               IF m = "SimdMultiThread"
               THEN simd_arm("*", x.data, Fill(Len(x.data), scalar), result)
               ELSE [p \in 1..Len(x.data) |-> x.data[p] * scalar]])

\* Per result index, the chunks (0 for the element loop) that stored it
tns_writers(f, x, m) ==
    [p \in 1..Product(x.shape) |->
        IF m = "SimdMultiThread" /\ f # "-"
        THEN chunk_writers(x.data, Product(x.shape), x.chunk_size, p - 1)
        ELSE {0}]

\* The call executes a vector instruction
tns_vector(f, x, m) ==
    /\ m = "SimdMultiThread" /\ f # "-"
    /\ chunk_vector(x.data, Product(x.shape), x.chunk_size, supports_avx2)

\* One call of the engine: f is the arithmetic, y the other tensor or, for
\* scalar_multiply, the scalar
TnsCall(name, f, r) ==
    /\ pc = "call" /\ op = name
    /\ Finish(r)
    /\ wlog' = IF r.kind = "Ok" THEN tns_writers(f, a, mode) ELSE wlog
    /\ simd_used' = (r.kind = "Ok" /\ tns_vector(f, a, mode))
    /\ UNCHANGED <<inputs, oob, uaf, th, spawned, joined, idx, lu>>

TnsAdd == TnsCall("tns_add", "+", tns_binary("+", a, b, mode))
TnsSub == TnsCall("tns_sub", "-", tns_binary("-", a, b, mode))
TnsMultiply == TnsCall("tns_multiply", "*", tns_binary("*", a, b, mode))
TnsScalarMultiply ==
    TnsCall("scalar_multiply", "*", scalar_multiply(a, b, mode))

\* ---------------------------------------------- SIMD paths: specification

TnsOps == {"tns_add", "tns_sub", "tns_multiply", "scalar_multiply"}

\* Lengths around the lane width and the chunk size
ElemLens == {0, 1, 7, 8, 9, 999, 1000, 1001, 2009}
NumCpus == {4, 12}
\* Operand shapes of the SIMD multiply: below and at the lane width
SimdShapesA == {<<1, 1>>, <<2, 1>>, <<2, 2>>, <<3, 2>>, <<1, 8>>}
SimdShapesB == {<<1, 1>>, <<1, 2>>, <<2, 1>>, <<2, 2>>, <<8, 1>>}

InitTns ==
    /\ op \in TnsOps /\ mode \in ComputeModes /\ nb_threads = 0
    /\ \E n \in ElemLens, cpus \in NumCpus, seed \in 0..MaxSeed :
          /\ a = TnsTensor(GenData(n, seed, 0), <<n>>, ChunkSize(cpus))
          /\ \/ /\ op # "scalar_multiply"
                /\ \E k \in {n, n + 1} :
                      b = TnsTensor(GenData(k, seed, 3), <<k>>, ChunkSize(cpus))
             \/ op = "scalar_multiply" /\ b \in Scalars

InitSimdMultiply ==
    /\ op = "multiply" /\ mode \in {"SIMD", "ParallelSIMD"}
    /\ nb_threads = NB_THREADS
    /\ \E sa \in SimdShapesA, sb \in SimdShapesB, seed \in 0..MaxSeed :
          /\ a = Tensor(GenData(Product(sa), seed, 0), sa)
          /\ b = Tensor(GenData(Product(sb), seed, 3), sb)

InitSimd ==
    /\ \E avx2 \in BOOLEAN : SimdProcessorNew(avx2, FALSE)
    /\ InitTns \/ InitSimdMultiply
    /\ InitFrame
    /\ config = TrainingConfigDefault

NextSimd ==
    \/ TnsAdd
    \/ TnsSub
    \/ TnsMultiply
    \/ TnsScalarMultiply
    \/ MultiplySimd
    \/ MultiplySimdIllegal
    \/ ParallelBegin
    \/ Spawn
    \/ \E t \in DOMAIN th : ThreadStep(t)
    \/ \E t \in DOMAIN th : ThreadIllegalInstruction(t)
    \/ \E t \in DOMAIN th : ThreadExit(t)
    \/ \E t \in DOMAIN th : ThreadPanic(t)
    \/ JoinOk
    \/ JoinUnwrap
    \/ ParallelReturn

SpecSimd == InitSimd /\ [][NextSimd]_vars

\* ----------------------------------------------------- multiply: properties

ValidPair == is_matrix(a) /\ is_matrix(b) /\ a.shape[2] = b.shape[1]

AllSpawned == pc \in {"join", "done"} /\ spawned = nb_threads /\ nb_threads >= 1

RowsOf(t) == th[t].start .. (th[t].end - 1)

\* C1: for rank-2 operands with a.cols = b.rows (b may be an n x 1 column
\* vector) Tensor::multiply ends Ok in every mode, whenever no task failed,
\* with the shape (a.rows, b.cols) and exactly the elements of the Sequential
\* mode.
C1_ModesAgree ==
    (op = "multiply" /\ pc = "done" /\ ValidPair /\ outcome # "panic")
        => /\ outcome = "Ok"
           /\ ret.shape = <<rows(a), cols(b)>>
           /\ ret = multiply_sequential(a, b).val

C1_Witness ==
    /\ op = "multiply" /\ mode = "ParallelSIMD" /\ outcome = "Ok"
    /\ cols(a) > LANES /\ rows(a) >= 2 /\ cols(b) >= 2
    /\ \E i \in 1..Len(ret.data) : ret.data[i] # 0

\* C2: once the spawn loop of a parallel multiply is over, the row ranges of
\* the tasks are pairwise disjoint, their union is [0, N), tasks 0..T-2 own
\* N div T rows each and the last task owns N div T + N mod T rows.
C2_Partition ==
    AllSpawned =>
        LET N == rows(a)
            T == nb_threads
        IN  /\ \A t1, t2 \in 0..(T - 1) :
                  t1 # t2 => RowsOf(t1) \cap RowsOf(t2) = {}
            /\ UNION {RowsOf(t) : t \in 0..(T - 1)} = 0..(N - 1)
            /\ \A t \in 0..(T - 2) : th[t].end - th[t].start = N \div T
            /\ th[T - 1].end - th[T - 1].start = (N \div T) + (N % T)

C2_Witness ==
    /\ AllSpawned
    /\ ParKernel = "multiply_parallel"
    /\ rows(a) > nb_threads
    /\ rows(a) % nb_threads # 0

\* C3: in every interleaving no index of the result buffer is written by two
\* different tasks, and no write through modify_at is outside the buffer.
C3_NoRace ==
    /\ ~oob
    /\ \A i \in 1..Len(wlog) :
          \A k1, k2 \in 1..Len(wlog[i]) : wlog[i][k1] = wlog[i][k2]

C3_Witness ==
    \E t1, t2 \in DOMAIN th :
        /\ t1 # t2
        /\ th[t1].st = "running" /\ th[t2].st = "running"
        /\ \E i, j \in 1..Len(wlog) : wlog[i] = <<t1>> /\ wlog[j] = <<t2>>

\* C4: a parallel multiply hands back Ok only when every spawned task has
\* terminated and been joined, and every cell of the result buffer has been
\* written exactly once.
C4_JoinedBeforeReturn ==
    (IsParallelCall /\ outcome = "Ok")
        => /\ joined = nb_threads
           /\ \A t \in DOMAIN th : th[t].st = "done"
           /\ Len(res) = ParLen
           /\ \A i \in 1..Len(res) : Len(wlog[i]) = 1
           /\ ret.data = res

C4_Witness ==
    /\ IsParallelCall /\ outcome = "Ok"
    /\ Len(res) >= 4
    /\ \E i, j \in 1..Len(wlog) : wlog[i] # wlog[j]

\* C5: a task that fails makes the call fail, and the failure reaches the
\* caller only when every spawned task has terminated and been joined.
C5_FailureAfterAllJoined ==
    /\ outcome = "Ok" => \A t \in DOMAIN th : th[t].st # "panicked"
    /\ outcome = "panic" =>
          \A t \in DOMAIN th : th[t].st \in {"done", "panicked"}


\* ------------------------------------------------ determinant: properties

RECURSIVE LeibnizDet(_, _)
\* The determinant of the n x n row-major buffer m, by expansion along the
\* first row
LeibnizDet(m, n) ==
    IF n = 1 THEN m[1]
    ELSE SumTo([j \in 0..(n - 1) |->
                  (IF j % 2 = 0 THEN 1 ELSE 0 - 1) * At(m, j)
                    * LeibnizDet([p \in 1..((n - 1) * (n - 1)) |->
                                    LET r == (p - 1) \div (n - 1) + 1
                                        c == (p - 1) % (n - 1)
                                    IN  At(m, r * n
                                               + (IF c < j THEN c ELSE c + 1))],
                                 n - 1)],
               n)

DetReturned == pc = "done" /\ op = "determinant" /\ outcome = "Ok"

\* C6: determinant returns the mathematical determinant of every square
\* matrix whose elimination divisions are exact: the element for size 1,
\* ad - bc for size 2, the Leibniz determinant for size >= 3.
C6_DeterminantIsLeibniz ==
    (DetReturned /\ is_square(a) /\ ExactElimination(a))
        => ret = LeibnizDet(a.mat, a.rows)

\* C7: exchanging two distinct rows negates the determinant, and a matrix
\* with two identical rows has determinant 0 (b is a with two rows
\* exchanged; inputs whose elimination divisions are exact).
C7_RowSwapNegates ==
    (DetReturned /\ a.rows >= 2 /\ ExactElimination(a) /\ ExactElimination(b))
        => /\ determinant(b).val = 0 - ret
           /\ (a.mat = b.mat => ret = 0)

\* ------------------------------------------------- operations: properties

MismatchChecked ==
    pc = "done" =>
      /\ op \in {"m_add", "m_sub", "dot_product"} =>
           (outcome = "IncompatibleDimensions"
              <=> (a.rows # b.rows \/ a.cols # b.cols))
      /\ op = "m_matrix_multiply" =>
           (outcome = "IncompatibleDimensions" <=> a.cols # b.rows)
      /\ (op = "multiply" /\ is_matrix(a) /\ is_matrix(b)) =>
           (outcome = "ShapeMismatch" <=> cols(a) # rows(b))

\* C8: Matrix add, sub and dot_product return IncompatibleDimensions exactly
\* when the operands' (rows, cols) differ, matrix multiplication exactly
\* when self.cols # other.rows, Tensor::multiply of two matrices returns
\* ShapeMismatch for that condition in every mode; and no step of any call
\* changes an operand.
C8_MismatchRejected ==
    [](MismatchChecked) /\ [][a' = a /\ b' = b]_vars

\* The 2x3 by 2x2 product and the 2x2 plus 2x3 sum have been rejected
C8_Witness ==
    /\ pc = "done" /\ outcome = "IncompatibleDimensions"
    /\ \/ op = "m_matrix_multiply" /\ a.rows = 2 /\ a.cols = 3
                                   /\ b.rows = 2 /\ b.cols = 2
       \/ op = "m_add" /\ a.rows = 2 /\ a.cols = 2
                       /\ b.rows = 2 /\ b.cols = 3

\* C9: elementwise divide (every ComputeMode) and Matrix / scalar fail
\* exactly when a divisor is zero, and when the failure is decided no
\* element of the output buffer has been stored.
C9_DivideFailsBeforeWriting ==
    pc = "done" =>
      /\ (op = "divide" /\ a.shape = b.shape) =>
           (outcome = "InvalidOperation" <=> any_zero(b.data))
      /\ op = "m_div" => (outcome = "DivisionByZero" <=> b = 0)
      /\ (op \in {"divide", "m_div"}
            /\ outcome \in {"InvalidOperation", "DivisionByZero"}) =>
           written = 0

ErrorKinds ==
    {"ShapeMismatch", "IncompatibleDimensions", "NotSquareMatrix",
     "DivisionByZero", "InvalidOperation"}

\* C10: a call that ends in a shape mismatch, a non-square error or a
\* division by zero has not allocated a result buffer.
C10_NoAllocationOnError ==
    (pc = "done" /\ outcome \in ErrorKinds) => ~allocated

NoTaskFailed == \A t \in DOMAIN th : th[t].st # "panicked"

\* C11: no operation panics: a call in which no task failed ends with Ok
\* or an error value, also the parallel multiplies with nb_threads = 0,
\* cofactor_matrix of a concurrent 1x1 matrix and argmax of a tensor
\* without elements.
C11_NeverPanics ==
    (pc = "done" /\ NoTaskFailed) => outcome # "panic"

\* ------------------------------------------------- factories: properties

Constructed == pc # "call" /\ idx = 0
FlatFactories == {"t_new", "m_from_vec", "m_from_vec_sequential"}

\* Every live Tensor has data.len() = product(shape) and rank = shape.len(),
\* every live Matrix has mat.len() = rows * cols
LiveLengths ==
    /\ LiveTensor => /\ Len(ret.data) = Product(ret.shape)
                     /\ ret.rank = Len(ret.shape)
    /\ LiveMatrix => Len(ret.mat) = ret.rows * ret.cols

\* C12 as stated: the live values keep their lengths, and construction
\* from a flat buffer fails exactly when the buffer length differs from
\* the product of the dimensions.
C12_FlatBufferExact ==
    /\ LiveLengths
    /\ (Constructed /\ op \in FlatFactories) =>
          (outcome # "Ok" <=> Len(a.data) # Product(a.shape))

\* C12, amended: the live values keep their lengths; Tensor::new fails
\* exactly when the buffer length differs from the product of the shape;
\* Matrix::from_vec and from_vec_sequential fail with InvalidDimensions when
\* a dimension is 0 (whatever the buffer), and otherwise with
\* DimensionMismatch exactly when the length differs from rows * cols.
C12_FlatBufferChecked ==
    /\ LiveLengths
    /\ (Constructed /\ op = "t_new") =>
          (outcome = "ShapeMismatch" <=> Len(a.data) # Product(a.shape))
    /\ (Constructed /\ op = "t_new") => outcome \in {"Ok", "ShapeMismatch"}
    /\ (Constructed /\ op \in {"m_from_vec", "m_from_vec_sequential"}) =>
          /\ outcome = "InvalidDimensions" <=> (0 \in {a.shape[1], a.shape[2]})
          /\ outcome = "DimensionMismatch" <=>
                /\ 0 \notin {a.shape[1], a.shape[2]}
                /\ Len(a.data) # Product(a.shape)
          /\ outcome \in {"Ok", "InvalidDimensions", "DimensionMismatch"}

\* from_vec(2, 2, ..) has rejected a buffer of 3 elements, and a value built
\* from a flat buffer has gone through two operations
C12_Witness ==
    \/ /\ pc = "done" /\ op = "m_from_vec" /\ a.shape = <<2, 2>>
       /\ Len(a.data) = 3 /\ outcome = "DimensionMismatch"
    \/ /\ pc = "live" /\ op \in FlatFactories /\ idx = MaxOps
       /\ Len(a.data) = 4

ZeroDim(shape) == \E i \in 1..Len(shape) : shape[i] = 0

\* C13: every factory of both array types (Tensor::scalar takes no shape)
\* rejects a shape with a dimension 0 with InvalidDimensions, so that no
\* live array has a zero dimension.
C13_ZeroDimensionRejected ==
    /\ (Constructed /\ op # "t_scalar" /\ ZeroDim(a.shape)) =>
          outcome = "InvalidDimensions"
    /\ LiveTensor => ~ZeroDim(ret.shape)
    /\ LiveMatrix => (ret.rows >= 1 /\ ret.cols >= 1)

\* ---------------------------------------- operations: the concurrent flag

\* The Matrix operation o applied to x and y (y the other operand, the
\* scalar or the column)
MatrixCall(o, x, y) ==
    CASE o = "m_add" -> m_add(x, y)
      [] o = "m_sub" -> m_sub(x, y)
      [] o = "dot_product" -> dot_product(x, y)
      [] o = "m_matrix_multiply" -> m_matrix_multiply(x, y)
      [] o = "m_mul_scalar" -> m_mul_scalar(x, y)
      [] o = "m_div" -> m_div(x, y)
      [] o = "m_neg" -> m_neg(x)
      [] o = "m_transpose" -> m_transpose(x)
      [] o = "col" -> col(x, y)
      [] o = "trace" -> trace(x)
      [] o = "cofactor_matrix" -> cofactor_matrix(x)

FlagOps ==
    {"m_add", "m_sub", "dot_product", "m_matrix_multiply", "m_mul_scalar",
     "m_div", "m_neg", "m_transpose", "col", "trace", "cofactor_matrix"}
MatrixValued == FlagOps \ {"col", "trace"}

\* The same shape and elements
SameArray(o, v, w) ==
    IF o \in MatrixValued
    THEN v.rows = w.rows /\ v.cols = w.cols /\ v.mat = w.mat
    ELSE v = w

\* C14: every Matrix operation that branches on the concurrent flag ends
\* the same way whatever the flags of its operands: the same shape and
\* elements, or the same error.
C14_FlagEquivalence ==
    (pc = "done" /\ op \in FlagOps) =>
      \A fa, fb \in BOOLEAN :
        LET r == MatrixCall(op, SetFlag(a, fa),
                            IF op \in MatrixBinaryOps THEN SetFlag(b, fb)
                                                      ELSE b)
        IN  /\ r.kind = outcome
            /\ outcome = "Ok" => SameArray(op, r.val, ret)

\* ------------------------------------------------ SIMD paths: properties

\* The engine operation o on x and y (y the scalar of scalar_multiply)
TnsEngine(o, x, y, m) ==
    CASE o = "tns_add" -> tns_binary("+", x, y, m)
      [] o = "tns_sub" -> tns_binary("-", x, y, m)
      [] o = "tns_multiply" -> tns_binary("*", x, y, m)
      [] o = "scalar_multiply" -> scalar_multiply(x, y, m)

\* C15: add, sub, multiply and scalar_multiply of the ComputeMode engine
\* return the same shape and elements in Single, MultiThread and
\* SimdMultiThread, whatever the length, and in SimdMultiThread every
\* result index is stored by exactly one chunk.
C15_ModesAgree ==
    (pc = "done" /\ op \in TnsOps /\ outcome = "Ok") =>
      /\ \A m \in ComputeModes :
            LET r == TnsEngine(op, a, b, m)
            IN  /\ r.kind = "Ok"
                /\ r.val.shape = ret.shape
                /\ r.val.data = ret.data
      /\ Len(wlog) = Len(ret.data)
      /\ \A p \in DOMAIN wlog : Cardinality(wlog[p]) = 1

\* A SimdMultiThread add whose last chunk is partial and not a multiple
\* of the lane width
C15_Witness ==
    /\ pc = "done" /\ op = "tns_add" /\ mode = "SimdMultiThread"
    /\ outcome = "Ok" /\ supports_avx2
    /\ Len(ret.data) = 2009 /\ a.chunk_size = 1000
    /\ wlog[2009] = {2}
    /\ ret.data # Zeros(2009)

\* A call of a SIMD strategy: the engine's SimdMultiThread arm, which goes
\* through add_slice / mul_slice, or Tensor::multiply in a SIMD mode
SimdStrategyCall ==
    \/ op \in TnsOps /\ mode = "SimdMultiThread"
    \/ op = "multiply" /\ mode \in {"SIMD", "ParallelSIMD"}

\* The slices of the call give the same elements on both paths
SlicesAgree ==
    (op \in {"tns_add", "tns_multiply"} /\ a.shape = b.shape) =>
        \A f \in {"+", "*"} :
            simd_slice(f, a.data, b.data, FALSE)
                = simd_slice(f, a.data, b.data, TRUE)

\* C16: when the probe finds no AVX2, a call of a SIMD strategy executes
\* no vector instruction, is not killed by one, and its slices hold what
\* the vector path would have stored.
C16_ScalarFallback ==
    (~supports_avx2 /\ SimdStrategyCall) =>
        /\ ~simd_used
        /\ outcome # "illegal_instruction"
        /\ SlicesAgree

\* The part of C16 about add_slice and mul_slice alone
SliceFallback ==
    (~supports_avx2 /\ op \in TnsOps) => (~simd_used /\ SlicesAgree)

\* ----------------------------------------------- cofactor: properties

RECURSIVE Remaining(_, _, _, _)
\* The elements of m from position p on, in order, without those of row i
\* and of column j
Remaining(m, i, j, p) ==
    IF p > Len(m.mat) THEN <<>>
    ELSE LET rest == Remaining(m, i, j, p + 1)
         IN  IF (p - 1) \div m.cols = i \/ (p - 1) % m.cols = j
             THEN rest
             ELSE <<m.mat[p]>> \o rest

\* m with row i and column j deleted
Deleted(m, i, j) ==
    Matrix(m.rows - 1, m.cols - 1, Remaining(m, i, j, 1), TRUE)

\* C17: for a square matrix with rows >= 2, cofactor_matrix returns a
\* matrix of the same dimensions whose cell (i, j) is the determinant of
\* the matrix with row i and column j deleted, negated when i + j is odd.
C17_CofactorCells ==
    (pc = "done" /\ op = "cofactor_matrix" /\ is_square(a) /\ a.rows >= 2)
    => /\ outcome = "Ok"
       /\ ret.rows = a.rows /\ ret.cols = a.cols
       /\ Len(ret.mat) = a.rows * a.cols
       /\ \A i, j \in 0..(a.rows - 1) :
             LET d == determinant(Deleted(a, i, j))
             IN  /\ d.kind = "Ok"
                 /\ At(ret.mat, i * a.cols + j)
                      = IF (i + j) % 2 = 0 THEN d.val ELSE 0 - d.val

\* A 3x3 cofactor matrix with a nonzero cell at an odd position
C17_Witness ==
    /\ pc = "done" /\ op = "cofactor_matrix" /\ outcome = "Ok"
    /\ a.rows = 3 /\ a.cols = 3
    /\ At(ret.mat, 1) # 0

SquareOnlyOps == {"trace", "determinant", "cofactor_matrix"}

\* C18: trace, determinant and cofactor_matrix fail with NotSquareMatrix
\* exactly when rows != cols, and fail in no other way: on every square
\* matrix, 1x1 included, they return a result.
C18_OnlyNotSquare ==
    (pc = "done" /\ op \in SquareOnlyOps) =>
        /\ (outcome = "NotSquareMatrix") <=> (a.rows # a.cols)
        /\ (a.rows = a.cols) => (outcome = "Ok")

\* The same, leaving out the cofactor matrix of a 1x1 matrix
OnlyNotSquareFrom2 ==
    (pc = "done" /\ op \in SquareOnlyOps
        /\ ~(op = "cofactor_matrix" /\ a.rows = 1 /\ a.cols = 1)) =>
        /\ (outcome = "NotSquareMatrix") <=> (a.rows # a.cols)
        /\ (a.rows = a.cols) => (outcome = "Ok")

\* ---------------------------------------------- transpose: properties

\* t is the transpose of the r x c buffer d: shape (c, r) and
\* T[j][i] == A[i][j]
IsTranspose(d, r, c, td, tr, tc) ==
    /\ tr = c /\ tc = r
    /\ Len(td) = r * c
    /\ \A i \in 0..(r - 1), j \in 0..(c - 1) :
          At(td, j * tc + i) = At(d, i * c + j)

\* C19: transpose of a Matrix (either path) and of a rank-2 Tensor of
\* shape (r, c) returns an array of shape (c, r) with T[j][i] == A[i][j],
\* and transposing the result gives the shape and elements of A back.
C19_Transpose ==
    /\ (pc = "done" /\ op = "m_transpose") =>
          /\ outcome = "Ok"
          /\ IsTranspose(a.mat, a.rows, a.cols, ret.mat, ret.rows, ret.cols)
          /\ LET back == m_transpose(ret)
             IN  /\ back.kind = "Ok"
                 /\ back.val.rows = a.rows /\ back.val.cols = a.cols
                 /\ back.val.mat = a.mat
    /\ (pc = "done" /\ op = "transpose" /\ a.rank = 2) =>
          /\ outcome = "Ok"
          /\ IsTranspose(a.data, a.shape[1], a.shape[2],
                         ret.data, ret.shape[1], ret.shape[2])
          /\ LET back == transpose(ret)
             IN  /\ back.kind = "Ok"
                 /\ back.val.shape = a.shape
                 /\ back.val.data = a.data

\* The concurrent transpose of a 2x3 matrix, whose buffer changes
C19_Witness ==
    /\ pc = "done" /\ op = "m_transpose" /\ outcome = "Ok"
    /\ a.rows = 2 /\ a.cols = 3 /\ a.concurrent
    /\ ret.rows = 3 /\ ret.mat # a.mat

\* ------------------------------------------------ identity: properties

\* 1 on the diagonal, the default 0 elsewhere
IsIdentity(m, n) ==
    /\ m.rows = n /\ m.cols = n /\ Len(m.mat) = n * n
    /\ \A i, j \in 0..(n - 1) :
          At(m.mat, i * n + j) = IF i = j THEN 1 ELSE 0

\* C20: the product of an m x n matrix A with identity(n) has the
\* dimensions and elements of A, the product of identity(n) with an n x k
\* matrix B those of B, and identity(n) is 1 on the diagonal and 0
\* elsewhere.
C20_IdentityIsNeutral ==
    (pc = "done" /\ op = "m_matrix_multiply") =>
        /\ (b.mat = identity(a.cols).val.mat /\ b.rows = a.cols
                /\ b.cols = a.cols) =>
              /\ IsIdentity(b, a.cols)
              /\ outcome = "Ok"
              /\ ret.rows = a.rows /\ ret.cols = a.cols /\ ret.mat = a.mat
        /\ (a.mat = identity(b.rows).val.mat /\ a.rows = b.rows
                /\ a.cols = b.rows) =>
              /\ IsIdentity(a, b.rows)
              /\ outcome = "Ok"
              /\ ret.rows = b.rows /\ ret.cols = b.cols /\ ret.mat = b.mat

\* A 2x3 matrix times identity(3)
C20_Witness ==
    /\ pc = "done" /\ op = "m_matrix_multiply" /\ outcome = "Ok"
    /\ a.rows = 2 /\ a.cols = 3 /\ a.mat # Zeros(6)
    /\ b = identity(3).val
    /\ ret.mat = a.mat

\* ------------------------------------------------------ Matrix: accessors

\* Mutant: the last row is refused as well
check_bounds_off_by_one(m, r, c) ==
    IF r + 1 >= m.rows \/ c >= m.cols
    THEN Err("IndexOutOfBounds") ELSE SOk(<<>>)

\* Matrix::check_bounds
check_bounds(m, r, c) ==
    IF r >= m.rows \/ c >= m.cols
    THEN Err("IndexOutOfBounds") ELSE SOk(<<>>)

\* Matrix::get: check_bounds(row, col)?, then &self.mat[row * cols + col]
m_get(m, r, c) ==
    LET chk == check_bounds(m, r, c)
    IN  IF chk.kind # "Ok" THEN chk ELSE SOk(At(m.mat, r * m.cols + c))

\* Matrix::set: self after the call and what the call returns
m_set(m, r, c, value) ==
    LET chk == check_bounds(m, r, c)
    IN  IF chk.kind # "Ok" THEN [self |-> m, r |-> chk]
        ELSE [self |-> [m EXCEPT !.mat[r * m.cols + c + 1] = value],
              r |-> SOk(<<>>)]

\* Mutant: the offset of the transposed cell
m_index_transposed(m, r, c) ==
    IF r >= m.rows \/ c >= m.cols THEN Err("panic")
    ELSE SOk(At(m.mat, c * m.rows + r))

\* impl Index<(usize, usize)>: panic!, or &self.mat[row * cols + col]
m_index(m, r, c) ==
    IF r >= m.rows \/ c >= m.cols THEN Err("panic")
    ELSE SOk(At(m.mat, r * m.cols + c))

\* impl IndexMut<(usize, usize)> and the store through the reference it
\* returns: self after `mat[(row, col)] = value`
m_index_mut(m, r, c, value) ==
    IF r >= m.rows \/ c >= m.cols THEN [self |-> m, r |-> Err("panic")]
    ELSE [self |-> [m EXCEPT !.mat[r * m.cols + c + 1] = value],
          r |-> SOk(<<>>)]

\* Mutant: the first row, whatever the index
m_row_first(m, r) ==
    IF r >= m.rows THEN Err("InvalidRowDimension")
    ELSE VOk(SubSeq(m.mat, 1, m.cols))

\* Matrix::row: self.mat[start..(start + cols)].to_vec()
m_row(m, r) ==
    IF r >= m.rows THEN Err("InvalidRowDimension")
    ELSE LET start == r * m.cols
         IN  VOk(SubSeq(m.mat, start + 1, start + m.cols))

\* A call on `self` = a that returns r and leaves self as self2
Access(name, self2, r) ==
    /\ pc = "call" /\ op = name
    /\ Finish(r)
    /\ a' = self2
    /\ UNCHANGED <<op, mode, nb_threads, b, supports_avx2, supports_avx512,
                   simd_width, simd_used, wlog,
                   oob, uaf, th, spawned, joined, idx, lu, training>>

\* b holds the arguments: row, col and value
MatrixGet == Access("get", a, m_get(a, b.row, b.col))
MatrixSet ==
    LET s == m_set(a, b.row, b.col, b.value)
    IN  Access("set", s.self, s.r)
MatrixIndex == Access("index", a, m_index(a, b.row, b.col))
MatrixIndexMut ==
    LET s == m_index_mut(a, b.row, b.col, b.value)
    IN  Access("index_mut", s.self, s.r)
\* b is the row
MatrixRow == Access("row", a, m_row(a, b))

\* -------------------------------------------- accessors: specification

MaxIndex == 3
\* A value no generated matrix holds
Stored == 7

CellOps == {"get", "set", "index", "index_mut"}
LineOps == {"row", "col"}

InitAcc ==
    /\ SimdProcessorNew(TRUE, FALSE)
    /\ mode = "" /\ nb_threads = 0
    /\ \E r \in OpsDims, c \in OpsDims, seed \in 0..MaxSeed, ca \in BOOLEAN :
          a = GenMatrix(r, c, seed, 0, ca)
    /\ \/ /\ op \in CellOps
          /\ \E r \in 0..MaxIndex, c \in 0..MaxIndex :
                b = [row |-> r, col |-> c, value |-> Stored]
       \/ op \in LineOps /\ b \in 0..MaxIndex
    /\ InitFrame
    /\ config = TrainingConfigDefault

NextAcc ==
    \/ MatrixGet
    \/ MatrixSet
    \/ MatrixIndex
    \/ MatrixIndexMut
    \/ MatrixRow
    \/ MatrixCol

SpecAcc == InitAcc /\ [][NextAcc]_vars

\* ----------------------------------------------- accessors: properties

\* The arguments are outside the matrix
OutOfBounds == b.row >= a.rows \/ b.col >= a.cols

\* Everything but the cell (row, col) of self is as before the step
OnlyCellChanged ==
    /\ a'.rows = a.rows /\ a'.cols = a.cols
    /\ a'.concurrent = a.concurrent
    /\ Len(a'.mat) = Len(a.mat)
    /\ \A p \in 1..Len(a.mat) :
          p # b.row * a.cols + b.col + 1 => a'.mat[p] = a.mat[p]

\* C21: get and set return IndexOutOfBounds exactly when row >= rows or
\* col >= cols; a failing set leaves self as it was, a succeeding set
\* changes only the cell (row, col), keeping the other cells, the
\* dimensions and the concurrent flag, and get(row, col) then returns the
\* value.
C21_GetSet ==
    [][(pc = "call" /\ pc' = "done" /\ op \in {"get", "set"}) =>
          /\ (outcome' = "IndexOutOfBounds") <=> OutOfBounds
          /\ ~OutOfBounds => outcome' = "Ok"
          /\ op = "get" =>
                /\ a' = a
                /\ ~OutOfBounds =>
                      ret' = At(a.mat, b.row * a.cols + b.col)
          /\ (op = "set" /\ OutOfBounds) => a' = a
          /\ (op = "set" /\ ~OutOfBounds) =>
                /\ OnlyCellChanged
                /\ m_get(a', b.row, b.col) = SOk(b.value)]_vars

\* A set that stored its value in the last cell of a 2x3 matrix
C21_Witness ==
    /\ pc = "done" /\ op = "set" /\ outcome = "Ok"
    /\ a.rows = 2 /\ a.cols = 3
    /\ b.row = 1 /\ b.col = 2
    /\ a.mat[6] = Stored

\* C22: mat[(row, col)], read or written, panics exactly when
\* row >= rows or col >= cols, which is when get and set return
\* IndexOutOfBounds, and otherwise reads the cell get reads and writes the
\* cell set writes.
C22_DirectIndexing ==
    [][(pc = "call" /\ pc' = "done" /\ op \in {"index", "index_mut"}) =>
          /\ (outcome' = "panic") <=> OutOfBounds
          /\ (outcome' = "panic") <=>
                (m_get(a, b.row, b.col).kind = "IndexOutOfBounds")
          /\ (outcome' = "panic") <=>
                (m_set(a, b.row, b.col, b.value).r.kind = "IndexOutOfBounds")
          /\ ~OutOfBounds => outcome' = "Ok"
          /\ (op = "index" /\ ~OutOfBounds) =>
                ret' = m_get(a, b.row, b.col).val
          /\ op = "index" => a' = a
          /\ op = "index_mut" =>
                a' = m_set(a, b.row, b.col, b.value).self]_vars

\* A read of cell (1, 0) of a 2x3 matrix, which differs from the cell at
\* the transposed offset
C22_Witness ==
    /\ pc = "done" /\ op = "index" /\ outcome = "Ok"
    /\ a.rows = 2 /\ a.cols = 3
    /\ b.row = 1 /\ b.col = 0
    /\ ret = a.mat[4] /\ ret # a.mat[2]

\* C23: row(i) returns InvalidRowDimension exactly when i >= rows and
\* otherwise the cols elements of row i in column order; col(j) returns
\* InvalidColumnDimension exactly when j >= cols and otherwise the rows
\* elements of column j in row order, whatever the concurrent flag.
C23_RowCol ==
    /\ (pc = "done" /\ op = "row") =>
          /\ (outcome = "InvalidRowDimension") <=> (b >= a.rows)
          /\ b < a.rows =>
                /\ outcome = "Ok"
                /\ Len(ret) = a.cols
                /\ \A j \in 0..(a.cols - 1) :
                      At(ret, j) = At(a.mat, b * a.cols + j)
    /\ (pc = "done" /\ op = "col") =>
          /\ (outcome = "InvalidColumnDimension") <=> (b >= a.cols)
          /\ b < a.cols =>
                /\ outcome = "Ok"
                /\ Len(ret) = a.rows
                /\ \A i \in 0..(a.rows - 1) :
                      At(ret, i) = At(a.mat, i * a.cols + b)
                /\ \A f \in BOOLEAN : col(SetFlag(a, f), b).val = ret

\* Row 1 of a 2x3 matrix, which differs from row 0
C23_Witness ==
    /\ pc = "done" /\ op = "row" /\ outcome = "Ok"
    /\ a.rows = 2 /\ a.cols = 3 /\ b = 1
    /\ ret = SubSeq(a.mat, 4, 6) /\ ret # SubSeq(a.mat, 1, 3)

\* ------------------------------------------------- pivoting: properties

\* C24: at every step i of determinant_lu the row chosen as pivot row
\* holds the value of largest absolute value of column i among the rows
\* i..n-1 of the matrix the step started from.
C24_PivotIsLargest ==
    [][(pc = "lu" /\ ~lu.done /\ lu' # lu) =>
          LET n == lu.n
              i == lu.i
              chosen == At(lu.m, lu'.max_row * n + i)
          IN  /\ lu'.max_row \in i..(n - 1)
              /\ \A k \in i..(n - 1) :
                    Abs(chosen) >= Abs(At(lu.m, k * n + i))]_vars

\* determinant_lu has returned through `return Ok(T::default())`, every
\* division before that having been exact
ZeroPivotExit ==
    /\ DetReturned /\ is_square(a) /\ a.rows >= 3
    /\ lu.zero_exit /\ lu.exact

\* C25: determinant_lu takes its zero-pivot exit only on singular
\* matrices: column i of the matrix the step started from is zero in the
\* rows i..n-1, and the determinant of the operand is 0.
C25_ZeroPivotMeansSingular ==
    ZeroPivotExit =>
        /\ \A k \in lu.i..(lu.n - 1) : At(lu.pre, k * lu.n + lu.i) = 0
        /\ LeibnizDet(a.mat, a.rows) = 0

\* ------------------------------------------- SimdProcessor: the slices

SliceOps == {"add_slice", "mul_slice"}
SliceF == IF op = "add_slice" THEN "+" ELSE "*"

\* One store into result[i] by a block of `width` lanes starting at
\* `start` (width 1: a scalar loop)
Store(i, kind, start, width, value) ==
    /\ res' = [res EXCEPT ![i + 1] = value]
    /\ wlog' = [wlog EXCEPT ![i + 1] =
                   Append(@, [kind |-> kind, start |-> start,
                              width |-> width])]

\* add_slice / mul_slice up to the kernel they dispatch to: a and b are
\* the slices, res the caller's result slice, of the length of a
SliceCall ==
    /\ pc = "call" /\ op \in SliceOps
    /\ IF Len(a) # Len(b)
       THEN \* assert_eq!(a.len(), b.len())
            /\ Finish(Err("panic"))
            /\ UNCHANGED <<wlog, idx>>
       ELSE /\ res' = Zeros(Len(a))
            /\ wlog' = [p \in 1..Len(a) |-> <<>>]
            /\ idx' = 0
            /\ pc' = IF supports_avx2 THEN "avx2" ELSE "scalar"
            /\ UNCHANGED <<outcome, ret, allocated, written>>
    /\ UNCHANGED <<inputs, simd_used, oob, uaf, th, spawned, joined, lu>>

\* add_avx2 / mul_avx2: `let simd_len = len - (len % 8)`
simd_len == Len(a) - (Len(a) % 8)

\* One iteration of `for i in (0..simd_len).step_by(8)`: load, add or
\* multiply, store 8 lanes
VectorChunk ==
    /\ pc = "avx2" /\ idx < simd_len
    /\ res' = [p \in 1..Len(res) |->
                  IF p - 1 \in idx..(idx + 7)
                  THEN Apply(SliceF, a[p], b[p]) ELSE res[p]]
    /\ wlog' = [p \in 1..Len(wlog) |->
                   IF p - 1 \in idx..(idx + 7)
                   THEN Append(wlog[p], [kind |-> "vector", start |-> idx,
                                         width |-> 8])
                   ELSE wlog[p]]
    /\ idx' = idx + 8
    /\ simd_used' = TRUE
    /\ UNCHANGED <<inputs, pc, outcome, ret, allocated, written, oob, uaf,
                   th, spawned, joined, lu>>

\* One iteration of `for i in simd_len..len`
RemainderStep ==
    /\ pc = "avx2" /\ idx >= simd_len /\ idx < Len(a)
    /\ Store(idx, "scalar", idx, 1, Apply(SliceF, a[idx + 1], b[idx + 1]))
    /\ idx' = idx + 1
    /\ UNCHANGED <<inputs, simd_used, pc, outcome, ret, allocated, written,
                   oob, uaf, th, spawned, joined, lu>>

\* One iteration of the loop of add_scalar / mul_scalar
ScalarStep ==
    /\ pc = "scalar" /\ idx < Len(a)
    /\ Store(idx, "scalar", idx, 1, Apply(SliceF, a[idx + 1], b[idx + 1]))
    /\ idx' = idx + 1
    /\ UNCHANGED <<inputs, simd_used, pc, outcome, ret, allocated, written,
                   oob, uaf, th, spawned, joined, lu>>

SliceReturn ==
    /\ pc \in {"avx2", "scalar"} /\ idx >= Len(a)
    /\ pc' = "done"
    /\ outcome' = "Ok"
    /\ UNCHANGED <<inputs, simd_used, ret, allocated, res, written, wlog,
                   oob, uaf, th, spawned, joined, idx, lu>>

\* ---------------------------------------------- slices: specification

\* Empty, below every lane width, multiples of 4, 8 and 16, and with a
\* remainder
SliceLens == {0, 1, 3, 4, 5, 8, 9, 16, 17}

InitSlice ==
    /\ \E avx2 \in BOOLEAN, avx512 \in BOOLEAN :
          SimdProcessorNew(avx2, avx512)
    /\ op \in SliceOps /\ mode = "" /\ nb_threads = 0
    /\ \E n \in SliceLens, seed \in 0..MaxSeed :
          /\ a = GenData(n, seed, 0)
          /\ b \in {GenData(n, seed, 3), GenData(n + 1, seed, 3)}
    /\ InitFrame
    /\ config = TrainingConfigDefault

NextSlice ==
    \/ SliceCall
    \/ VectorChunk
    \/ RemainderStep
    \/ ScalarStep
    \/ SliceReturn

SpecSlice == InitSlice /\ [][NextSlice]_vars

\* ------------------------------------------------ slices: properties

SliceReturned == pc = "done" /\ op \in SliceOps /\ outcome = "Ok"

\* The first len - (len mod w) indices were stored by blocks of exactly w
\* lanes, the others by a scalar loop
BlocksOf(w) ==
    LET len == Len(a)
        vector_len == len - (len % w)
    IN  \A i \in 0..(len - 1) :
           /\ Len(wlog[i + 1]) >= 1
           /\ LET st == wlog[i + 1][1]
              IN  IF i < vector_len
                  THEN /\ st.kind = "vector" /\ st.width = w
                       /\ st.start = (i \div w) * w
                  ELSE st.kind = "scalar"

\* Every result element was stored exactly once, with a[i] + b[i]
\* (a[i] * b[i])
StoredOnce ==
    /\ Len(res) = Len(a)
    /\ \A i \in 1..Len(a) :
          /\ Len(wlog[i]) = 1
          /\ res[i] = Apply(SliceF, a[i], b[i])

\* C26: add_slice and mul_slice process the first len - (len mod w)
\* indices in blocks of exactly w = simd_width elements and the remaining
\* len mod w indices in the scalar loop, and every result element is
\* stored exactly once with a[i] + b[i] (a[i] * b[i]).
C26_LaneWidthBlocks ==
    SliceReturned => (BlocksOf(simd_width) /\ StoredOnce)

\* What holds of the blocks: 8 lanes when AVX2 was found, whatever the
\* stored width, and no block at all otherwise
BlocksOfEight ==
    SliceReturned =>
        /\ StoredOnce
        /\ supports_avx2 => BlocksOf(8)
        /\ ~supports_avx2 =>
              \A i \in 1..Len(a) : wlog[i][1].kind = "scalar"

\* ------------------------------------------------- operands: properties

TensorCallOps ==
    {"add", "sub", "hadamard", "scale", "transpose", "multiply", "divide"}

\* The tensor handed back holds the buffer this call allocated
FreshResult ==
    (pc = "done" /\ outcome = "Ok" /\ op \in TensorCallOps) =>
        /\ allocated
        /\ ret.data = res

\* C27: no step of add, sub, hadamard, scale, transpose, multiply (every
\* ExecutionMode) and divide (every ComputeMode) changes the data or the
\* shape of an operand or stores outside the result buffer, whether the
\* call succeeds or fails, and the tensor returned holds a buffer that the
\* call itself allocated, which is therefore neither operand's.
C27_OperandsUntouched ==
    /\ [][(op \in TensorCallOps) => (a' = a /\ b' = b)]_vars
    /\ [](op \in TensorCallOps => ~oob)
    /\ []FreshResult

\* A Parallel multiply of two 2x2 tensors has returned its own buffer
C27_Witness ==
    /\ pc = "done" /\ op = "multiply" /\ mode = "Parallel"
    /\ outcome = "Ok" /\ allocated
    /\ a.shape = <<2, 2>> /\ b.shape = <<2, 2>>
    /\ ret.data = res /\ ret.data # a.data /\ ret.data # b.data

\* --------------------------------------------- SIMD kernels: the reads

\* Mutant: the chunk loop runs once more
vector_loads_one_more(n) == {j * LANES : j \in 0..(n \div LANES)}

\* `for j in 0..complete_chunks { let offset = j * 8; .. }`: the offsets
\* of the 8-element loads of one dot product over n elements
vector_loads(n) == {j * LANES : j \in 0..((n \div LANES) - 1)}

\* `for j in 0..remaining`: the offsets offset + j the scalar loop reads
remainder_reads(n) ==
    LET complete_chunks == n \div LANES
        remaining == n % LANES
        offset == complete_chunks * LANES
    IN  IF remaining > 0 THEN {offset + j : j \in 0..(remaining - 1)} ELSE {}

\* The kernel a SIMD call runs once its checks have passed: "mv" for
\* matrix_vector_multiply(_parallel), "mm" for matrix_multiply(_parallel)
SimdKernelOf ==
    IF op = "multiply" /\ mode \in {"SIMD", "ParallelSIMD"}
    THEN IF is_column_vector(b) /\ is_matrix(a) THEN "mv"
         ELSE IF is_matrix(a) /\ is_matrix(b) THEN "mm"
         ELSE "none"
    ELSE IF op = "matrix_vector_multiply_parallel"
    THEN IF is_matrix(a) /\ is_column_vector(b) THEN "mv" ELSE "none"
    ELSE IF op = "matrix_multiply_parallel"
    THEN IF is_matrix(a) /\ is_matrix(b) THEN "mm" ELSE "none"
    ELSE "none"

\* The dot products of the kernel: the lengths of the two buffers, the
\* offset of the current row in each, and the number of elements
SimdDots ==
    IF SimdKernelOf = "none" THEN {}
    ELSE IF a.shape[2] # b.shape[1] THEN {}
    ELSE IF SimdKernelOf = "mv"
    THEN {[xlen |-> Len(a.data), xoff |-> i * cols(a),
           ylen |-> Len(b.data), yoff |-> 0,
           n |-> cols(a)] : i \in 0..(rows(a) - 1)}
    ELSE LET transposed == transpose(b).val
             b_rows == cols(transposed)
             ylen == Len(transposed.data)
         IN  {[xlen |-> Len(a.data), xoff |-> i * cols(a),
               ylen |-> ylen, yoff |-> k * b_rows,
               n |-> cols(a)] :
                 i \in 0..(rows(a) - 1), k \in 0..(cols(b) - 1)}

\* The 8 elements read at buf[off + first ..] lie in the n-element row
\* that starts at off, and in the buffer of length len
LoadInRow(len, off, first, n) ==
    \A l \in 0..(LANES - 1) :
        /\ first + l < n
        /\ off + first + l < len

\* C28: in the four SIMD multiply kernels every 8-element load at offset
\* j * 8, j < cols div 8, reads only indices of the current row of a and of
\* the current row of the transposed b (or of the vector) and none past
\* the end of either buffer, and the scalar remainder loop reads exactly
\* the offsets cols - cols mod 8 .. cols - 1, for every shape (stated of
\* the operands of every call: no step of the call changes them).
C28_LoadsInBounds ==
    pc = "call" =>
        \A d \in SimdDots :
            /\ \A first \in vector_loads(d.n) :
                  /\ LoadInRow(d.xlen, d.xoff, first, d.n)
                  /\ LoadInRow(d.ylen, d.yoff, first, d.n)
            /\ remainder_reads(d.n) = (d.n - (d.n % LANES))..(d.n - 1)
            /\ \A j \in remainder_reads(d.n) :
                  d.xoff + j < d.xlen /\ d.yoff + j < d.ylen

\* A SIMD product of a 2x9 by a 9x2 tensor: one load and one remainder
\* element per dot product
C28_Witness ==
    /\ pc = "done" /\ op = "multiply" /\ mode = "SIMD" /\ outcome = "Ok"
    /\ a.shape = <<2, 9>> /\ b.shape = <<9, 2>>
    /\ Cardinality(SimdDots) = 4
    /\ \A d \in SimdDots :
          vector_loads(d.n) = {0} /\ remainder_reads(d.n) = {8}

\* -------------------------------------------- concurrent flag: properties

FlagBinaryOps == {"m_add", "m_sub", "dot_product", "m_matrix_multiply"}
FlagUnaryOps ==
    {"m_mul_scalar", "m_div", "m_neg", "m_transpose", "cofactor_matrix"}

\* The flag of the result r of operation o on x and y
FlagRule(o, x, y, r) ==
    r.kind = "Ok" =>
        IF o \in FlagBinaryOps
        THEN r.val.concurrent = (x.concurrent \/ y.concurrent)
        ELSE r.val.concurrent = x.concurrent

\* C29: the concurrent flag of a Matrix result is self.concurrent OR
\* other.concurrent for add, sub, dot_product and matrix_multiply and
\* self.concurrent for scalar multiply, scalar divide, negate, transpose
\* and cofactor_matrix, also when the operand is itself a result: a result
\* is sequential only if every operand it was computed from was.
C29_FlagPropagates ==
    (pc = "done" /\ outcome = "Ok"
        /\ op \in FlagBinaryOps \cup FlagUnaryOps) =>
        /\ FlagRule(op, a, b, [kind |-> "Ok", val |-> ret])
        /\ \A o2 \in {"m_neg", "m_transpose", "m_mul_scalar"} :
              FlagRule(o2, ret, 2, MatrixCall(o2, ret, 2))
        /\ \A o2 \in {"m_add", "dot_product"}, f \in BOOLEAN :
              FlagRule(o2, ret, SetFlag(ret, f),
                       MatrixCall(o2, ret, SetFlag(ret, f)))
        /\ ~ret.concurrent =>
              /\ ~a.concurrent
              /\ op \in FlagBinaryOps => ~b.concurrent

\* The sum of two sequential 2x2 matrices is sequential
C29_Witness ==
    /\ pc = "done" /\ op = "m_add" /\ outcome = "Ok"
    /\ a.rows = 2 /\ a.cols = 2
    /\ ~a.concurrent /\ ~b.concurrent /\ ~ret.concurrent

\* ------------------------------------------------------------ SGD::train
\* a and b are inputs.len() and targets.len(); losses are integers; the
\* train_loss and the durations of a metric are carried but never read

MaxEpochs == 4
MaxLoss == 2
MaxPatience == 2

Losses == 0..MaxLoss
MinImprovements == {0, 1, 2}
ValidationSplits == {0, 50}
\* <<inputs.len(), targets.len()>>
TrainSets == {<<0, 0>>, <<2, 1>>, <<2, 2>>}

TrainingConfigs ==
    [epochs : 0..MaxEpochs,
     validation_split : ValidationSplits,
     early_stopping_patience : {None} \cup {Some(n) : n \in 0..MaxPatience},
     min_improvement : MinImprovements]

\* ((1.0 - config.validation_split) * inputs.len() as f64) as usize
split_idx == ((100 - config.validation_split) * a) \div 100

\* The length of the second half of inputs.split_at(split_idx)
val_inputs == a - split_idx

TrainingMetrics(e, validation_loss) ==
    [epoch |-> e, validation_loss |-> validation_loss]

\* TrainingHistory::add_metric
add_metric(h, metric) ==
    LET val == metric.validation_loss
        better == /\ val # None
                  /\ \/ h.best_validation_loss = None
                     \/ val[1] < h.best_validation_loss[1]
    IN  [h EXCEPT !.best_validation_loss = IF better THEN val ELSE @,
                  !.best_epoch = IF better THEN metric.epoch ELSE @,
                  !.metrics = Append(@, metric)]

\* Mutant: the counter is never reset
patience_update_no_reset(h, validation_loss, counter) ==
    IF /\ validation_loss # None
       /\ config.early_stopping_patience # None
       /\ h.best_validation_loss # None
       /\ h.best_validation_loss[1] - validation_loss[1]
              < config.min_improvement
    THEN counter + 1
    ELSE counter

\* The counter after the early stopping check of an epoch
patience_update(h, validation_loss, counter) ==
    IF /\ validation_loss # None
       /\ config.early_stopping_patience # None
       /\ h.best_validation_loss # None
    THEN IF h.best_validation_loss[1] - validation_loss[1]
                < config.min_improvement
         THEN counter + 1
         ELSE 0
    ELSE counter

TrainFrame ==
    UNCHANGED <<op, mode, nb_threads, a, b, supports_avx2, supports_avx512,
                simd_width, simd_used, config, wlog, oob, uaf, th, spawned,
                joined, idx, lu>>

\* SGD::train up to the loop
TrainCall ==
    /\ pc = "call" /\ op = "train"
    /\ IF a # b
       THEN /\ Finish(Err("InvalidInputSize"))
            /\ UNCHANGED <<history, patience_counter, epoch>>
       ELSE /\ history' = TrainingHistoryNew
            /\ patience_counter' = 0
            /\ epoch' = 1
            /\ pc' = "loop"
            /\ UNCHANGED <<outcome, ret, allocated, res, written>>
    /\ TrainFrame

InLoop ==
    /\ pc = "loop" /\ op = "train"
    /\ epoch <= config.epochs
    /\ ~history.stopped_early

\* One iteration of `for epoch in 1..=config.epochs`
Epoch ==
    /\ InLoop
    /\ \E val_loss \in Losses :
          LET validation_loss ==
                  IF val_inputs > 0 THEN Some(val_loss) ELSE None
              metric == TrainingMetrics(epoch, validation_loss)
              counter ==
                  patience_update(history, validation_loss, patience_counter)
              stop == /\ validation_loss # None
                      /\ config.early_stopping_patience # None
                      /\ counter >= config.early_stopping_patience[1]
          IN  /\ patience_counter' = counter
              /\ history' =
                    IF stop
                    THEN [add_metric(history, metric)
                             EXCEPT !.stopped_early = TRUE]
                    ELSE add_metric(history, metric)
              /\ epoch' = IF stop THEN epoch ELSE epoch + 1
    /\ UNCHANGED <<pc, outcome, ret, allocated, res, written>>
    /\ TrainFrame

\* train_epoch or validate returns Err, and `?` returns it
EpochErr ==
    /\ InLoop
    /\ Finish(Err("InvalidLayerSize"))
    /\ UNCHANGED <<history, patience_counter, epoch>>
    /\ TrainFrame

\* Ok(history), after the last epoch or after the break
TrainReturn ==
    /\ pc = "loop" /\ op = "train"
    /\ epoch > config.epochs \/ history.stopped_early
    /\ outcome' = "Ok" /\ ret' = history /\ pc' = "done"
    /\ UNCHANGED <<history, patience_counter, epoch, allocated, res, written>>
    /\ TrainFrame

InitTrain ==
    /\ SimdProcessorNew(TRUE, FALSE)
    /\ op = "train" /\ mode = "" /\ nb_threads = 0
    /\ \E s \in TrainSets : a = s[1] /\ b = s[2]
    /\ config \in TrainingConfigs
    /\ InitFrame

NextTrain ==
    \/ TrainCall
    \/ Epoch
    \/ EpochErr
    \/ TrainReturn

SpecTrain == InitTrain /\ [][NextTrain]_vars

\* ---------------------------------------------- SGD::train: properties

Recorded == history.metrics

ValLoss(k) == Recorded[k].validation_loss[1]

\* The smallest validation loss of the first k recorded metrics
RECURSIVE MinLoss(_)
MinLoss(k) == IF k = 1 THEN ValLoss(1) ELSE Min(MinLoss(k - 1), ValLoss(k))

\* Epoch k improved on the best loss recorded before it by less than
\* min_improvement
NotImproved(k) ==
    k >= 2 /\ MinLoss(k - 1) - ValLoss(k) < config.min_improvement

\* The number of consecutive such epochs ending with epoch k
RECURSIVE Stale(_)
Stale(k) == IF k = 0 \/ ~NotImproved(k) THEN 0 ELSE 1 + Stale(k - 1)

EarlyStopCase ==
    /\ op = "train"
    /\ val_inputs > 0
    /\ config.early_stopping_patience # None

\* C30: with a non-empty validation set and early_stopping_patience =
\* Some(p), training ends at the first epoch at which the number of
\* consecutive epochs that improved on the best recorded validation loss by
\* less than min_improvement reaches p: that epoch's metric is recorded once
\* and stopped_early is set; otherwise config.epochs metrics are recorded and
\* stopped_early is false; best_validation_loss is always the minimum of the
\* validation losses recorded so far.
C30_EarlyStopping ==
    EarlyStopCase =>
        LET n == Len(Recorded)
            patience == config.early_stopping_patience[1]
        IN  /\ \A k \in 1..n : Recorded[k].epoch = k
            /\ n <= config.epochs
            /\ \A k \in 1..(n - 1) : Stale(k) < patience
            /\ history.stopped_early <=> (n >= 1 /\ Stale(n) >= patience)
            /\ history.best_validation_loss =
                  IF n = 0 THEN None ELSE Some(MinLoss(n))
            /\ (pc = "done" /\ outcome = "Ok") =>
                  /\ ret = history
                  /\ ~history.stopped_early => n = config.epochs

\* Patience 2, 4 epochs: epochs 2 and 3 do not improve enough and the run
\* stops at epoch 3
C30_Witness ==
    /\ EarlyStopCase /\ pc = "done" /\ outcome = "Ok"
    /\ config.early_stopping_patience = Some(2)
    /\ config.epochs = 4
    /\ history.stopped_early
    /\ Len(Recorded) = 3


====
